---- MODULE Spec2Model ----
(***************************************************************************)
(* A model of the LibCST native parser draft: the whitespace parser        *)
(* (native/libcst_tokenize/src/whitespace_parser.rs), the whitespace nodes *)
(* and their code generation (native/libcst_nodes/src/whitespace.rs), the  *)
(* statement nodes (libcst_native/src/parser/statement.rs) and the grammar *)
(* with its node constructors (libcst_native/src/parser/grammar.rs).       *)
(*                                                                         *)
(* Text is a sequence of one-character strings.  Option<T> is a sequence   *)
(* of length 0 (None) or 1 (Some).  A Result is a record whose err field   *)
(* is "" for Ok; its st field is the caller's scan state as the call left  *)
(* it (the Rust functions mutate it through &mut).                         *)
(***************************************************************************)
EXTENDS Integers, Sequences, FiniteSets, TLC

VARIABLES
    input,      \* the text handed to parse_module / to the whitespace Config
    pc,         \* position of the driver
    wsState,    \* the scan state the whitespace-parser calls act on
    wsPrev,     \* the scan state before the last whitespace-parser call
    wsCall,     \* the last whitespace-parser call and its result
    parsed,     \* result of parse_module (err, module)
    output,     \* result of codegen on the parsed module
    cgNode,     \* a constructed node handed to codegen
    cgBefore,   \* the CodegenState before the codegen call
    cgAfter     \* the CodegenState after the codegen call (or a panic)

vars == <<input, pc, wsState, wsPrev, wsCall, parsed, output, cgNode, cgBefore, cgAfter>>

----------------------------------------------------------------------------
(* Sequences of characters *)

None == <<>>
Some(x) == <<x>>

Drop(s, n) == SubSeq(s, n + 1, Len(s))
Take(s, n) == SubSeq(s, 1, n)
StartsWith(s, p) == Len(p) <= Len(s) /\ Take(s, Len(p)) = p
Contains(s, c) == \E i \in 1..Len(s) : s[i] = c

RECURSIVE Flatten(_)
Flatten(ss) == IF ss = <<>> THEN <<>> ELSE Head(ss) \o Flatten(Tail(ss))

----------------------------------------------------------------------------
(* The three regular expressions, each anchored at the start of s. *)

\* NEWLINE_RE  \A(\r\n?|\n) : length of the match, 0 when there is none
NEWLINE_RE(s) ==
    IF Len(s) >= 2 /\ s[1] = "\r" /\ s[2] = "\n" THEN 2
    ELSE IF Len(s) >= 1 /\ s[1] \in {"\r", "\n"} THEN 1
    ELSE 0

\* COMMENT_RE  \A#[^\r\n]* : length of the match, 0 when there is none
RECURSIVE NotNewlineRun(_)
NotNewlineRun(s) ==
    IF s = <<>> \/ Head(s) \in {"\r", "\n"} THEN 0 ELSE 1 + NotNewlineRun(Tail(s))

COMMENT_RE(s) ==
    IF Len(s) >= 1 /\ s[1] = "#" THEN 1 + NotNewlineRun(Tail(s)) ELSE 0

\* SIMPLE_WHITESPACE_RE  \A([ \f\t]|\\(\r\n?|\n))* : length of the match
RECURSIVE SIMPLE_WHITESPACE_RE(_)
SIMPLE_WHITESPACE_RE(s) ==
    IF s = <<>> THEN 0
    ELSE IF s[1] \in {" ", "\f", "\t"} THEN 1 + SIMPLE_WHITESPACE_RE(Drop(s, 1))
    ELSE IF s[1] = "\\" /\ NEWLINE_RE(Drop(s, 1)) > 0
         THEN 1 + NEWLINE_RE(Drop(s, 1))
                + SIMPLE_WHITESPACE_RE(Drop(s, 1 + NEWLINE_RE(Drop(s, 1))))
    ELSE 0

\* the call of a function of the program by its name (defined after them)
RECURSIVE Call(_, _)

----------------------------------------------------------------------------
(* Config and State *)

\* Config::new : the physical lines of the text, each with its line break;
\* an unterminated last line is a line, an empty remainder is not.
LineEnds(s) ==
    {i \in 1..Len(s) : \/ s[i] = "\n"
                       \/ s[i] = "\r" /\ ~(i < Len(s) /\ s[i + 1] = "\n")
                       \/ i = Len(s)}

SplitLines(s) ==
    LET ends == LineEnds(s)
        start(e) == IF \E x \in ends : x < e
                    THEN 1 + CHOOSE x \in ends : x < e /\ \A y \in ends : y < e => y <= x
                    ELSE 1
        nth(k) == CHOOSE e \in ends : Cardinality({x \in ends : x <= e}) = k
    IN [k \in 1..Cardinality(ends) |-> SubSeq(s, start(nth(k)), nth(k))]

\* the default newline is the first physical line break of the text
DetectNewline(lines) ==
    IF lines = <<>> THEN <<"\n">>
    ELSE LET l == lines[1]
             n == Len(l)
         IN IF n >= 2 /\ l[n - 1] = "\r" /\ l[n] = "\n" THEN <<"\r", "\n">>
            ELSE IF l[n] = "\r" THEN <<"\r">>
            ELSE <<"\n">>

NewConfig(text) ==
    [input |-> text, lines |-> SplitLines(text),
     default_newline |-> DetectNewline(SplitLines(text))]

DefaultState ==
    [line |-> 1, column |-> 0, column_byte |-> 0, absolute_indent |-> <<>>,
     is_parenthesized |-> FALSE, byte_offset |-> 0]

Ok(st, v) == [err |-> "", st |-> st, val |-> v]
Err(e, st) == [err |-> e, st |-> st, val |-> None]

InternalError == "InternalError"
TrailingWhitespaceError == "TrailingWhitespaceError"
Panic == "panic"
\* a loop that never ends
Diverges == "diverges"

\* Config::get_line
get_line(config, line_number) ==
    IF line_number >= 1 /\ line_number <= Len(config.lines)
    THEN [err |-> "", val |-> config.lines[line_number]]
    ELSE [err |-> InternalError, val |-> <<>>]

\* Config::get_line_after_column
get_line_after_column(config, line_number, column_index) ==
    LET l == get_line(config, line_number)
    IN IF l.err # "" THEN l
       ELSE IF column_index <= Len(l.val)
            THEN [err |-> "", val |-> Drop(l.val, column_index)]
            ELSE [err |-> InternalError, val |-> <<>>]

\* a variant that leaves byte_offset where it was
advance_to_next_line_same_offset(config, st) ==
    LET cur == get_line(config, st.line)
    IN IF cur.err # "" THEN Err(cur.err, st)
       ELSE Ok([st EXCEPT !.column = 0, !.column_byte = 0, !.line = @ + 1], None)

advance_to_next_line(config, st) ==
    LET cur == get_line(config, st.line)
    IN IF cur.err # "" THEN Err(cur.err, st)
       ELSE Ok([st EXCEPT !.byte_offset = @ + Len(cur.val) - st.column_byte,
                          !.column = 0, !.column_byte = 0, !.line = @ + 1], None)

advance_this_line(config, st, char_count, offset) ==
    LET cur == get_line(config, st.line)
    IN IF cur.err # "" THEN Err(cur.err, st)
       ELSE IF Len(cur.val) < st.column_byte + offset THEN Err(InternalError, st)
       ELSE Ok([st EXCEPT !.column = @ + char_count, !.column_byte = @ + offset,
                          !.byte_offset = @ + offset], None)

----------------------------------------------------------------------------
(* whitespace_parser.rs : the parsers.  Each returns [err, st, val]. *)

\* parse_indent : val is the bool; the state moves past the indent on TRUE
parse_indent(config, st, override_absolute_indent) ==
    LET absolute_indent == IF override_absolute_indent # None
                           THEN override_absolute_indent[1] ELSE st.absolute_indent
    IN IF st.column_byte # 0
       THEN LET l == get_line(config, st.line)
            IN IF l.err # "" THEN Err(l.err, st)
               ELSE IF st.column_byte = Len(l.val) /\ st.line = Len(config.lines)
                    THEN Ok(st, FALSE)
                    ELSE Err(InternalError, st)
       ELSE LET rest == get_line_after_column(config, st.line, st.column_byte)
            IN IF rest.err # "" THEN Err(rest.err, st)
               ELSE IF StartsWith(rest.val, absolute_indent)
                    THEN Ok([st EXCEPT !.column_byte = @ + Len(absolute_indent),
                                       !.column = @ + Len(absolute_indent),
                                       !.byte_offset = @ + Len(absolute_indent)], TRUE)
                    ELSE Ok(st, FALSE)

\* a variant that matches once and does not go on after a continuation
capture_ws_once(config, st) ==
    LET x == get_line_after_column(config, st.line, st.column_byte)
    IN IF x.err # "" THEN Err(x.err, st) ELSE Ok(st, SIMPLE_WHITESPACE_RE(x.val))

\* the loop of parse_simple_whitespace: val is the length of prev_line
capture_ws_loop(config, st) ==
    LET x == get_line_after_column(config, st.line, st.column_byte)
    IN IF x.err # "" THEN Err(x.err, st)
       ELSE LET n == SIMPLE_WHITESPACE_RE(x.val)
            IN IF ~Contains(Take(x.val, n), "\\") THEN Ok(st, n)
               ELSE LET a == Call("advance_to_next_line", <<config, st>>)
                    IN IF a.err # "" THEN a ELSE Call("capture_ws_loop", <<config, a.st>>)

\* parse_simple_whitespace : val is the SimpleWhitespace (a slice of the input)
parse_simple_whitespace(config, st) ==
    LET start_offset == st.byte_offset
        lp == Call("capture_ws_loop", <<config, st>>)
    IN IF lp.err # "" THEN Err(lp.err, lp.st)
       ELSE LET a == Call("advance_this_line", <<config, lp.st, lp.val, lp.val>>)
            IN IF a.err # "" THEN a
               ELSE Ok(a.st, SubSeq(config.input, start_offset + 1, a.st.byte_offset))

\* parse_comment : val is Option<Comment>
parse_comment(config, st) ==
    LET x == get_line_after_column(config, st.line, st.column_byte)
    IN IF x.err # "" THEN Err(x.err, st)
       ELSE LET n == COMMENT_RE(x.val)
            IN IF n > 0
               THEN LET a == Call("advance_this_line", <<config, st, n, n>>)
                    IN IF a.err # "" THEN a ELSE Ok(a.st, Some(Take(x.val, n)))
               ELSE Ok(st, None)

\* A Newline node: value is Option<&str>
Newline(value, fake) == [value |-> value, fake |-> fake]

\* parse_newline, lines 278-282: None exactly when the match is the default newline
NewlineValue(config, newline_str) ==
    IF newline_str = config.default_newline THEN None ELSE Some(newline_str)

\* parse_newline, line 289: the test for the tokenizer's fake newline
AtFakeNewline(config, st) ==
    st.byte_offset = Len(config.input) /\ st.column_byte # 0

\* parse_newline : val is Option<Newline>
parse_newline(config, st) ==
    LET x == get_line_after_column(config, st.line, st.column_byte)
    IN IF x.err # "" THEN Err(x.err, st)
       ELSE LET n == NEWLINE_RE(x.val)
            IN IF n > 0
               THEN LET a == Call("advance_this_line", <<config, st, n, n>>)
                    IN IF a.err # "" THEN a
                       ELSE LET l == get_line(config, a.st.line)
                            IN IF l.err # "" THEN Err(l.err, a.st)
                               ELSE IF a.st.column_byte # Len(l.val)
                                    THEN Err(InternalError, a.st)
                               ELSE LET b == IF a.st.line < Len(config.lines)
                                             THEN Call("advance_to_next_line", <<config, a.st>>)
                                             ELSE Ok(a.st, None)
                                    IN IF b.err # "" THEN b
                                       ELSE Ok(b.st, Some(Newline(
                                                NewlineValue(config, Take(x.val, n)), FALSE)))
               ELSE IF AtFakeNewline(config, st)
                    THEN Ok(st, Some(Newline(None, TRUE)))
                    ELSE Ok(st, None)

EmptyLine(indent, whitespace, comment, newline, indentation) ==
    [indent |-> indent, whitespace |-> whitespace, comment |-> comment,
     newline |-> newline, indentation |-> indentation]

\* parse_empty_line : val is Option<EmptyLine>; the state moves only on Some
parse_empty_line(config, st, override_absolute_indent) ==
    LET ind == Call("parse_indent", <<config, st, override_absolute_indent>>)
    IN IF ind.err # "" THEN Ok(st, None)
       ELSE LET ws == Call("parse_simple_whitespace", <<config, ind.st>>)
            IN IF ws.err # "" THEN Err(ws.err, st)
               ELSE LET cm == Call("parse_comment", <<config, ws.st>>)
                    IN IF cm.err # "" THEN Err(cm.err, st)
                       ELSE LET nl == Call("parse_newline", <<config, cm.st>>)
                            IN IF nl.err # "" THEN Err(nl.err, st)
                               ELSE IF nl.val # None
                                    THEN Ok(nl.st, Some(EmptyLine(
                                            ind.val, ws.val, cm.val, nl.val[1],
                                            IF ind.val
                                            THEN (IF override_absolute_indent # None
                                                  THEN override_absolute_indent
                                                  ELSE Some(nl.st.absolute_indent))
                                            ELSE None)))
                                    ELSE Ok(st, None)

\* _parse_all_empty_lines : val is the list of (state after the line, line)
_parse_all_empty_lines(config, st, override_absolute_indent, lines) ==
    LET r == Call("parse_empty_line", <<config, st, override_absolute_indent>>)
    IN IF r.err # "" THEN Err(r.err, r.st)
       ELSE IF r.val = None THEN Ok(st, lines)
       ELSE LET pushed == Append(lines, [st |-> r.st, el |-> r.val[1]])
            IN IF r.val[1].newline.fake THEN Ok(r.st, pushed)
               ELSE Call("_parse_all_empty_lines", <<config, r.st, override_absolute_indent, pushed>>)

\* find_last_line_at, lines 209-214: the line the state s has just left
LineNumberOf(s) == IF s.column = 0 THEN (IF s.line >= 1 THEN s.line - 1 ELSE 0) ELSE s.line

\* find_last_line_at, lines 227-235: the raw line is indented deeper than indent.
\* Indexing the raw line at indent.len() is out of bounds when nothing follows.
IndentedDeeper(raw_line, indent) ==
    StartsWith(raw_line, indent) /\ raw_line[Len(indent) + 1] \in {" ", "\t"}

IndexOutOfBounds(raw_line, indent) ==
    StartsWith(raw_line, indent) /\ Len(raw_line) = Len(indent)

\* find_last_line_at : [panic, val] with val the Option<usize> (0-based index)
find_last_line_from(lines, config, override_absolute_indent, ind, last_droppable_line) ==
    IF ind > Len(lines) THEN [panic |-> FALSE, val |-> last_droppable_line]
    ELSE LET s == lines[ind].st
             empty_line == lines[ind].el
             raw_line == get_line(config, LineNumberOf(s))
             indent == IF override_absolute_indent # None
                       THEN override_absolute_indent[1] ELSE s.absolute_indent
         IN IF raw_line.err # "" \/ (empty_line.comment = None /\ empty_line.whitespace = <<>>)
            THEN Call("find_last_line_from", <<lines, config, override_absolute_indent,
                                     ind + 1, last_droppable_line>>)
            ELSE IF IndexOutOfBounds(raw_line.val, indent)
                 THEN [panic |-> TRUE, val |-> None]
            ELSE Call("find_last_line_from", <<lines, config, override_absolute_indent, ind + 1,
                                     IF IndentedDeeper(raw_line.val, indent)
                                     THEN Some(ind - 1) ELSE last_droppable_line>>)

find_last_line_at(lines, config, override_absolute_indent) ==
    Call("find_last_line_from", <<lines, config, override_absolute_indent, 1, None>>)

\* a variant that pops nothing
PopNothing(lines, override_absolute_indent) == lines

\* parse_empty_lines, lines 157-165: pop from the end down to the last line that is
\* indented at the override
RECURSIVE PopToIndented(_, _)
PopToIndented(lines, override_absolute_indent) ==
    IF lines = <<>> THEN lines
    ELSE LET empty_line == lines[Len(lines)].el
         IN IF empty_line.indent /\ empty_line.indentation = override_absolute_indent
            THEN lines
            ELSE PopToIndented(Take(lines, Len(lines) - 1), override_absolute_indent)

\* the lines of a list of (state, line)
LinesOf(pairs) == [i \in 1..Len(pairs) |-> pairs[i].el]

\* a variant that skips nothing
SkipNothing(lines, last_droppable_line) == lines

\* parse_empty_lines, lines 175-179: skip the lines up to the last droppable one
SkipDroppable(lines, last_droppable_line) ==
    Drop(lines, IF last_droppable_line # None THEN last_droppable_line[1] + 1 ELSE 0)

\* parse_empty_lines, lines 146-179 : val is the kept list of (state after the line, line)
parse_empty_lines_kept(config, st, override_absolute_indent) ==
    LET all == Call("_parse_all_empty_lines", <<config, st, override_absolute_indent, <<>>>>)
    IN IF all.err # "" THEN Err(all.err, st)
       ELSE LET lines == IF override_absolute_indent # None
                         THEN PopToIndented(all.val, override_absolute_indent)
                         ELSE all.val
                last == Call("find_last_line_at", <<lines, config, override_absolute_indent>>)
            IN IF last.panic THEN Err(Panic, st)
               ELSE Ok(IF lines # <<>> THEN lines[Len(lines)].st ELSE st,
                       SkipDroppable(lines, last.val))

\* parse_empty_lines : val is the Vec<EmptyLine>
parse_empty_lines(config, st, override_absolute_indent) ==
    LET r == Call("parse_empty_lines_kept", <<config, st, override_absolute_indent>>)
    IN IF r.err # "" THEN r ELSE Ok(r.st, LinesOf(r.val))

\* parse_all_empty_lines
parse_all_empty_lines(config, st) ==
    LET all == Call("_parse_all_empty_lines", <<config, st, Some(<<>>), <<>>>>)
    IN IF all.err # "" THEN Err(all.err, all.st) ELSE Ok(all.st, LinesOf(all.val))

\* the loop of parse_empty_lines_from_end, on the speculative state.  The loop has
\* no exit but None: an empty line that leaves the state where it was is found
\* again at every iteration
parse_lines_from_end(config, st, lines) ==
    LET r == Call("parse_empty_line", <<config, st, None>>)
    IN IF r.err # "" THEN Err(r.err, r.st)
       ELSE IF r.val = None THEN Ok(st, lines)
       ELSE IF r.st = st THEN Err(Diverges, st)
       ELSE Call("parse_lines_from_end", <<config, r.st, Append(lines, [st |-> r.st, el |-> r.val[1]])>>)

\* parse_empty_lines_from_end : val is the Vec<EmptyLine>
parse_empty_lines_from_end(config, st) ==
    LET all == Call("parse_lines_from_end", <<config, st, <<>>>>)
    IN IF all.err # "" THEN Err(all.err, st)
       ELSE LET last == Call("find_last_line_at", <<all.val, config, None>>)
            IN IF last.panic THEN Err(Panic, st)
               ELSE Ok(all.st, LinesOf(SkipDroppable(all.val, last.val)))

TrailingWhitespace(whitespace, comment, newline) ==
    [whitespace |-> whitespace, comment |-> comment, newline |-> newline]

\* parse_optional_trailing_whitespace : val is Option<TrailingWhitespace>
parse_optional_trailing_whitespace(config, st) ==
    LET ws == Call("parse_simple_whitespace", <<config, st>>)
    IN IF ws.err # "" THEN Err(ws.err, st)
       ELSE LET cm == Call("parse_comment", <<config, ws.st>>)
            IN IF cm.err # "" THEN Err(cm.err, st)
               ELSE LET nl == Call("parse_newline", <<config, cm.st>>)
                    IN IF nl.err # "" THEN Err(nl.err, st)
                       ELSE IF nl.val # None
                            THEN Ok(nl.st, Some(TrailingWhitespace(ws.val, cm.val, nl.val[1])))
                            ELSE Ok(st, None)

\* parse_trailing_whitespace : val is the TrailingWhitespace
parse_trailing_whitespace(config, st) ==
    LET r == Call("parse_optional_trailing_whitespace", <<config, st>>)
    IN IF r.err # "" THEN r
       ELSE IF r.val # None THEN Ok(r.st, r.val[1])
       ELSE Err(TrailingWhitespaceError, st)

----------------------------------------------------------------------------
(* CodegenState: the output buffer, the indent stack, the defaults.  A panic *)
(* (todo!(), panic!()) ends the call; nothing is appended after it.          *)

DefaultIndent == <<" ", " ", " ", " ">>

CodegenStateDefault ==
    [tokens |-> <<>>, indent_tokens |-> <<>>, default_newline |-> <<"\n">>,
     default_indent |-> DefaultIndent, panicked |-> FALSE]

add_token(state, tok) ==
    IF state.panicked THEN state ELSE [state EXCEPT !.tokens = @ \o tok]

indent(state, v) ==
    IF state.panicked THEN state ELSE [state EXCEPT !.indent_tokens = Append(@, v)]

dedent(state) ==
    IF state.panicked THEN state
    ELSE [state EXCEPT !.indent_tokens = Take(@, Len(@) - 1)]

add_indent(state) == add_token(state, Flatten(state.indent_tokens))

panic(state) == [state EXCEPT !.panicked = TRUE]

----------------------------------------------------------------------------
(* whitespace.rs : code generation of the whitespace nodes *)

SimpleWhitespace_codegen(self, state) == add_token(state, self)

Comment_codegen(self, state) == add_token(state, self)

OptComment_codegen(comment, state) ==
    IF comment # None THEN Comment_codegen(comment[1], state) ELSE state

\* a variant that ignores the stored value
Newline_codegen_default(self, state) ==
    IF self.fake THEN state ELSE add_token(state, state.default_newline)

Newline_codegen(self, state) ==
    IF self.fake THEN state
    ELSE IF self.value # None THEN add_token(state, self.value[1])
    ELSE add_token(state, state.default_newline)

TrailingWhitespace_codegen(self, state) ==
    Call("Newline_codegen", <<self.newline,
        OptComment_codegen(self.comment,
            SimpleWhitespace_codegen(self.whitespace, state))>>)

EmptyLine_codegen(self, state) ==
    Call("Newline_codegen", <<self.newline,
        OptComment_codegen(self.comment,
            SimpleWhitespace_codegen(self.whitespace,
                IF self.indent THEN add_indent(state) ELSE state))>>)

EmptyLines_codegen(lines, state) ==
    IF lines = <<>> THEN state
    ELSE LET s1 == Call("EmptyLine_codegen", <<Head(lines), state>>)
         IN IF s1.panicked THEN s1 ELSE Call("EmptyLines_codegen", <<Tail(lines), s1>>)

----------------------------------------------------------------------------
(* expression.rs : code generation of expressions *)

\* whitespace.rs : ParenthesizedWhitespace, the whitespace that spans lines
ParenthesizedWhitespace_codegen(self, state) ==
    LET s1 == Call("TrailingWhitespace_codegen", <<self.first_line, state>>)
        s2 == Call("EmptyLines_codegen", <<self.empty_lines, s1>>)
    IN SimpleWhitespace_codegen(self.last_line,
                                IF self.indent THEN add_indent(s2) ELSE s2)

\* whitespace.rs : the enum ParenthesizableWhitespace
ParenthesizableWhitespace_codegen(self, state) ==
    IF self.type = "SimpleWhitespace" THEN SimpleWhitespace_codegen(self.value, state)
    ELSE Call("ParenthesizedWhitespace_codegen", <<self, state>>)

LeftParen_codegen(self, state) ==
    Call("ParenthesizableWhitespace_codegen",
         <<self.whitespace_after, add_token(state, <<"(">>)>>)

RightParen_codegen(self, state) ==
    add_token(Call("ParenthesizableWhitespace_codegen", <<self.whitespace_before, state>>),
              <<")">>)

LeftParens_codegen(lpar, state) ==
    IF lpar = <<>> THEN state
    ELSE Call("LeftParens_codegen", <<Tail(lpar), Call("LeftParen_codegen", <<Head(lpar), state>>)>>)

RightParens_codegen(rpar, state) ==
    IF rpar = <<>> THEN state
    ELSE Call("RightParens_codegen", <<Tail(rpar), Call("RightParen_codegen", <<Head(rpar), state>>)>>)

Expression_codegen(self, state) ==
    IF self.type = "Ellipsis" THEN add_token(state, <<".", ".", ".">>)
    ELSE IF self.type = "BinaryOperation"
         THEN LET s1 == Call("Expression_codegen", <<self.left, Call("LeftParens_codegen", <<self.lpar, state>>)>>)
              IN IF s1.panicked THEN s1
                 ELSE LET s2 == Call("Expression_codegen", <<self.right, add_token(s1, self.operator)>>)
                      IN IF s2.panicked THEN s2 ELSE Call("RightParens_codegen", <<self.rpar, s2>>)
    ELSE IF self.type = "Integer"
         THEN Call("RightParens_codegen", <<self.rpar,
                add_token(Call("LeftParens_codegen", <<self.lpar, state>>), self.value)>>)
    ELSE panic(state)

----------------------------------------------------------------------------
(* statement.rs : code generation of statements *)

\* SmallStatement: Return and Assert are todo!()
SmallStatement_codegen(self, state) ==
    IF self.type = "Pass" THEN add_token(state, <<"p", "a", "s", "s">>)
    ELSE IF self.type = "Break" THEN add_token(state, <<"b", "r", "e", "a", "k">>)
    ELSE IF self.type = "Continue"
         THEN add_token(state, <<"c", "o", "n", "t", "i", "n", "u", "e">>)
    ELSE IF self.type = "Expr" THEN Call("Expression_codegen", <<self.value, state>>)
    ELSE panic(state)

SmallStatements_codegen(body, state) ==
    IF body = <<>> THEN state
    ELSE LET s1 == Call("SmallStatement_codegen", <<Head(body), state>>)
         IN IF s1.panicked THEN s1 ELSE Call("SmallStatements_codegen", <<Tail(body), s1>>)

\* _simple_statement_codegen, lines 140-144: an empty body emits pass
EmptyBodyPass(body, state) ==
    IF body = <<>> THEN add_token(state, <<"p", "a", "s", "s">>) ELSE state

_simple_statement_codegen(body, trailing_whitespace, state) ==
    LET s1 == Call("SmallStatements_codegen", <<body, state>>)
    IN IF s1.panicked THEN s1
       ELSE Call("TrailingWhitespace_codegen", <<trailing_whitespace, EmptyBodyPass(body, s1)>>)

SimpleStatementSuite_codegen(self, state) ==
    Call("_simple_statement_codegen", <<self.body, self.trailing_whitespace,
        SimpleWhitespace_codegen(self.leading_whitespace, state)>>)

SimpleStatementLine_codegen(self, state) ==
    LET s1 == Call("EmptyLines_codegen", <<self.leading_lines, state>>)
    IN IF s1.panicked THEN s1
       ELSE Call("_simple_statement_codegen", <<self.body, self.trailing_whitespace, add_indent(s1)>>)


\* a variant whose pass line is not indented
IndentedBlockBody_codegen_flat(body, state) ==
    IF body = <<>>
    THEN add_token(add_token(state, <<"p", "a", "s", "s">>), state.default_newline)
    ELSE Call("Statements_codegen", <<body, state>>)

\* IndentedBlock.codegen, lines 86-99: the body, or one pass line when it is empty
IndentedBlockBody_codegen(body, state) ==
    IF body = <<>>
    THEN add_token(add_token(add_indent(state), <<"p", "a", "s", "s">>),
                   state.default_newline)
    ELSE Call("Statements_codegen", <<body, state>>)

\* a variant that pops the indent before the footer
IndentedBlock_codegen_early(self, state) ==
    LET s1 == Call("TrailingWhitespace_codegen", <<self.header, state>>)
    IN IF self.indent = None THEN panic(s1)
       ELSE LET s2 == Call("IndentedBlockBody_codegen", <<self.body, indent(s1, self.indent[1])>>)
            IN IF s2.panicked THEN s2 ELSE Call("EmptyLines_codegen", <<self.footer, dedent(s2)>>)

\* IndentedBlock.codegen: header, indent pushed, body, footer, indent popped
IndentedBlock_codegen(self, state) ==
    LET s1 == Call("TrailingWhitespace_codegen", <<self.header, state>>)
    IN IF self.indent = None THEN panic(s1)
       ELSE LET s2 == Call("IndentedBlockBody_codegen", <<self.body, indent(s1, self.indent[1])>>)
            IN IF s2.panicked THEN s2
               ELSE LET s3 == Call("EmptyLines_codegen", <<self.footer, s2>>)
                    IN IF s3.panicked THEN s3 ELSE dedent(s3)

Suite_codegen(self, state) ==
    IF self.type = "IndentedBlock" THEN Call("IndentedBlock_codegen", <<self, state>>)
    ELSE Call("SimpleStatementSuite_codegen", <<self, state>>)

Else_codegen(self, state) ==
    LET s1 == Call("EmptyLines_codegen", <<self.leading_lines, state>>)
    IN IF s1.panicked THEN s1
       ELSE LET s2 == add_token(SimpleWhitespace_codegen(self.whitespace_before_colon,
                                    add_token(add_indent(s1), <<"e", "l", "s", "e">>)),
                                <<":">>)
            IN IF s2.panicked THEN s2 ELSE Call("Suite_codegen", <<self.body, s2>>)

If_codegen(self, state) ==
    LET s0 == Call("EmptyLines_codegen", <<self.leading_lines, state>>)
    IN IF s0.panicked THEN s0
       ELSE LET s1 == add_token(add_indent(s0),
                         IF self.is_elif THEN <<"e", "l", "i", "f">> ELSE <<"i", "f">>)
                s2 == Call("Expression_codegen", <<self.test,
                         SimpleWhitespace_codegen(self.whitespace_before_test, s1)>>)
            IN IF s2.panicked THEN s2
               ELSE LET s3 == Call("Suite_codegen", <<self.body,
                                 add_token(SimpleWhitespace_codegen(
                                               self.whitespace_after_test, s2), <<":">>)>>)
                    IN IF s3.panicked \/ self.orelse = None THEN s3
                       ELSE IF self.orelse[1].type = "If" THEN Call("If_codegen", <<self.orelse[1], s3>>)
                       ELSE Call("Else_codegen", <<self.orelse[1], s3>>)

Statement_codegen(self, state) ==
    IF self.type = "SimpleStatementLine" THEN Call("SimpleStatementLine_codegen", <<self, state>>)
    ELSE IF self.type = "If" THEN Call("If_codegen", <<self, state>>)
    ELSE IF self.type = "FunctionDef" THEN Call("FunctionDef_codegen", <<self, state>>)
    ELSE panic(state)

Statements_codegen(body, state) ==
    IF body = <<>> THEN state
    ELSE LET s1 == Call("Statement_codegen", <<Head(body), state>>)
         IN IF s1.panicked THEN s1 ELSE Call("Statements_codegen", <<Tail(body), s1>>)

\* Module: the statements of the body, in order
Module_codegen(self, state) == Call("Statements_codegen", <<self.body, state>>)

----------------------------------------------------------------------------
(* The token stream producer (its contract): logical lines become tokens    *)
(* followed by a Newline token, blank and comment-only lines produce none,  *)
(* a deeper first column produces Indent, a shallower one Dedent per level. *)
(* whitespace_before of a token is the scan state at the end of the token   *)
(* before it; Indent and Dedent are zero-width and sit at the position just *)
(* after the preceding Newline.                                             *)

Letters == {"a", "b", "c", "d", "e", "f", "i", "l", "m", "n", "o", "p", "r", "s", "t", "u", "x"}
Digits == {"0", "1", "2", "3"}
Op1 == {";", ":", "+", "-", "*", "/", "%", "@", "|", "^", "&", "~", "(", ")", ",", "=", "<", ">"}
Op2 == {<<"*", "*">>, <<"<", "<">>, <<">", ">">>, <<"/", "/">>, <<"=", "=">>,
        <<"!", "=">>, <<":", "=">>}

RECURSIVE RunIn(_, _)
RunIn(s, set) == IF s = <<>> \/ Head(s) \notin set THEN 0 ELSE 1 + RunIn(Tail(s), set)

OpLen(s) ==
    IF Len(s) >= 3 /\ Take(s, 3) = <<".", ".", ".">> THEN 3
    ELSE IF Len(s) >= 2 /\ Take(s, 2) \in Op2 THEN 2
    ELSE IF Len(s) >= 1 /\ s[1] \in Op1 THEN 1
    ELSE 0

Pos(ln, col, off, absolute_indent) ==
    [line |-> ln, column |-> col, column_byte |-> col, absolute_indent |-> absolute_indent,
     is_parenthesized |-> FALSE, byte_offset |-> off]

\* a position in the text: line from 1, column in chars from 0, offset in bytes
TextPosition(ln, col, off) == [line |-> ln, column |-> col, offset |-> off]

\* the position a scan state stands at
PositionOf(st) == TextPosition(st.line, st.column, st.byte_offset)

Token(type, string, start_pos, end_pos, whitespace_before, whitespace_after, relative_indent) ==
    [type |-> type, string |-> string, start_pos |-> start_pos, end_pos |-> end_pos,
     whitespace_before |-> whitespace_before,
     whitespace_after |-> whitespace_after, relative_indent |-> relative_indent]

TokErr(e) == [err |-> e, tokens |-> <<>>]

\* the error for the text of line l from column col on, which starts no token: an
\* underscore that ends a run of digits is BadDecimal, anything else BadCharacter
BadToken(l, col) ==
    IF col >= 1 /\ l[col] \in Digits /\ l[col + 1] = "_" THEN "BadDecimal" ELSE "BadCharacter"

\* the tokens of one logical line from column col on; prev is the scan state at the
\* end of the token before
TokenizeRest(l, ln, off, col, cur, prev, acc) ==
    LET rest == Drop(l, col)
        nl == NEWLINE_RE(rest)
        next == Pos(ln + 1, 0, off + Len(l), cur)
        eof == Pos(ln, col, off + col, cur)
    IN IF rest = <<>>
       THEN [err |-> "", prev |-> eof,
             tokens |-> Append(acc, Token("Newline", <<>>, PositionOf(eof), PositionOf(eof),
                                          prev, eof, None))]
       ELSE IF nl > 0
       THEN [err |-> "", prev |-> next,
             tokens |-> Append(acc, Token("Newline", Take(rest, nl), PositionOf(eof),
                                          TextPosition(ln, col + nl, off + col + nl),
                                          prev, next, None))]
       ELSE IF rest[1] \in {" ", "\t", "\f"}
       THEN Call("TokenizeRest", <<l, ln, off, col + 1, cur, prev, acc>>)
       ELSE IF rest[1] = "#"
       THEN Call("TokenizeRest", <<l, ln, off, col + COMMENT_RE(rest), cur, prev, acc>>)
       ELSE LET n == IF rest[1] \in Letters THEN RunIn(rest, Letters)
                     ELSE IF rest[1] \in Digits THEN RunIn(rest, Digits)
                     ELSE OpLen(rest)
                type == IF rest[1] \in Letters THEN "Name"
                        ELSE IF rest[1] \in Digits THEN "Number" ELSE "Op"
                after == Pos(ln, col + n, off + col + n, cur)
            IN IF n = 0 THEN [err |-> BadToken(l, col), prev |-> prev, tokens |-> acc]
               ELSE Call("TokenizeRest", <<l, ln, off, col + n, cur, after,
                        Append(acc, Token(type, Take(rest, n), PositionOf(eof),
                                          PositionOf(after), prev, after, None))>>)

\* Dedent tokens down to the indent cur; stack holds the absolute indents, outermost first
RECURSIVE Dedents(_, _, _)
Dedents(stack, cur, prev) ==
    IF stack = <<>> \/ stack[Len(stack)] = cur THEN <<>>
    ELSE LET below == IF Len(stack) = 1 THEN <<>> ELSE stack[Len(stack) - 1]
             st == [prev EXCEPT !.absolute_indent = below]
         IN <<Token("Dedent", <<>>, PositionOf(st), PositionOf(st), st, st, None)>>
            \o Dedents(Take(stack, Len(stack) - 1), cur, prev)

RECURSIVE PopTo(_, _)
PopTo(stack, cur) ==
    IF stack = <<>> \/ stack[Len(stack)] = cur THEN stack
    ELSE PopTo(Take(stack, Len(stack) - 1), cur)

Top(stack) == IF stack = <<>> THEN <<>> ELSE stack[Len(stack)]

TokenizeLines(lines, ln, off, stack, prev, acc) ==
    IF ln > Len(lines)
    THEN LET st == [prev EXCEPT !.absolute_indent = <<>>]
         IN [err |-> "",
             tokens |-> acc \o Dedents(stack, <<>>, prev)
                            \o <<Token("EndMarker", <<>>, PositionOf(st), PositionOf(st),
                                        st, st, None)>>]
    ELSE LET l == lines[ln]
             n == RunIn(l, {" ", "\t"})
             cur == Take(l, n)
             rest == Drop(l, n)
         IN IF rest = <<>> \/ NEWLINE_RE(rest) > 0 \/ rest[1] = "#"
            THEN Call("TokenizeLines", <<lines, ln + 1, off + Len(l), stack, prev, acc>>)
            ELSE IF cur # Top(stack) /\ ~StartsWith(cur, Top(stack))
                    /\ PopTo(stack, cur) = <<>> /\ cur # <<>>
            THEN TokErr("Dedent")
            ELSE LET here == [prev EXCEPT !.absolute_indent = cur]
                     deeper == cur # Top(stack) /\ StartsWith(cur, Top(stack))
                     marks == IF deeper
                              THEN <<Token("Indent", <<>>, PositionOf(here), PositionOf(here),
                                           here, here, Some(Drop(cur, Len(Top(stack)))))>>
                              ELSE Dedents(stack, cur, prev)
                     stack2 == IF deeper THEN Append(stack, cur) ELSE PopTo(stack, cur)
                     r == Call("TokenizeRest", <<l, ln, off, n, cur, here, acc \o marks>>)
                 IN IF r.err # "" THEN TokErr(r.err)
                    ELSE Call("TokenizeLines", <<lines, ln + 1, off + Len(l), stack2, r.prev, r.tokens>>)

\* tokenize
tokenize(text) ==
    Call("TokenizeLines", <<SplitLines(text), 1, 0, <<>>, Pos(1, 0, 0, <<>>), <<>>>>)

----------------------------------------------------------------------------
(* grammar.rs : the node constructors.  Each returns [err, val]. *)

S_pass == <<"p", "a", "s", "s">>
S_if == <<"i", "f">>
S_elif == <<"e", "l", "i", "f">>
S_else == <<"e", "l", "s", "e">>
S_name == <<"n", "a", "m", "e">>
S_def == <<"d", "e", "f">>
S_not == <<"n", "o", "t">>
S_or == <<"o", "r">>
S_and == <<"a", "n", "d">>

NodeOk(v) == [err |-> "", val |-> v]
NodeErr(e) == [err |-> e, val |-> None]

make_binary_op_fold(expr, tail) ==
    [type |-> "BinaryOperation", left |-> expr, operator |-> tail.op.string,
     right |-> tail.right, lpar |-> <<>>, rpar |-> <<>>]

\* make_binary_op : the left fold of head over the (operator token, operand) pairs
make_binary_op(head, tail) ==
    IF tail = <<>> THEN head
    ELSE Call("make_binary_op", <<Call("make_binary_op_fold", <<head, Head(tail)>>), Tail(tail)>>)

make_unary_op(op, tail) ==
    [type |-> "UnaryOperation", operator |-> op.string, expression |-> tail,
     lpar |-> <<>>, rpar |-> <<>>]

make_number(num) == [type |-> "Integer", value |-> num.string, lpar |-> <<>>, rpar |-> <<>>]

\* make_indented_block : the footer is parsed from the Dedent token with the block's
\* indent as the override, then the header from the Newline token
\* The field inflated of a node lists the byte offsets the whitespace parsers were
\* started from to build the node, in the order of the calls: those of the nodes
\* it is built from, which the rule has built before its action runs, then those
\* of its own constructor.  Calls made for an alternative that was given up are
\* not listed.
RECURSIVE InflatedBy(_)
InflatedBy(nodes) ==
    IF nodes = <<>> THEN <<>> ELSE Head(nodes).inflated \o InflatedBy(Tail(nodes))

make_indented_block(config, nl, indent_tok, statements, dedent_tok) ==
    LET footer == Call("parse_empty_lines", <<config, dedent_tok.whitespace_after,
                                    Some(indent_tok.whitespace_before.absolute_indent)>>)
    IN IF footer.err # "" THEN NodeErr(footer.err)
       ELSE LET header == Call("parse_trailing_whitespace", <<config, nl.whitespace_before>>)
            IN IF header.err # "" THEN NodeErr(header.err)
               ELSE NodeOk([type |-> "IndentedBlock", body |-> statements,
                            header |-> header.val, indent |-> indent_tok.relative_indent,
                            footer |-> footer.val,
                            inflated |-> InflatedBy(statements)
                                         \o <<dedent_tok.whitespace_after.byte_offset,
                                               nl.whitespace_before.byte_offset>>])

\* _make_simple_statement, lines 584-592: the body; the semicolon tokens are dropped
SimpleStatementBody(parts) ==
    [i \in 1..Len(parts.statements) |-> parts.statements[i].statement]
        \o <<parts.last_statement>>

\* _make_simple_statement : val is (first token, body, trailing whitespace)
_make_simple_statement(config, parts) ==
    LET tw == Call("parse_trailing_whitespace", <<config, parts.nl.whitespace_before>>)
    IN IF tw.err # "" THEN NodeErr(tw.err)
       ELSE NodeOk([first |-> parts.first, body |-> SimpleStatementBody(parts),
                    trailing_whitespace |-> tw.val,
                    inflated |-> <<parts.nl.whitespace_before.byte_offset>>])

make_simple_statement_suite(config, parts) ==
    LET r == Call("_make_simple_statement", <<config, parts>>)
    IN IF r.err # "" THEN r
       ELSE LET lw == Call("parse_simple_whitespace", <<config, r.val.first.whitespace_before>>)
            IN IF lw.err # "" THEN NodeErr(lw.err)
               ELSE NodeOk([type |-> "SimpleStatementSuite", body |-> r.val.body,
                            leading_whitespace |-> lw.val,
                            trailing_whitespace |-> r.val.trailing_whitespace,
                            inflated |-> Append(r.val.inflated,
                                                r.val.first.whitespace_before.byte_offset)])

make_simple_statement_line(config, parts) ==
    LET r == Call("_make_simple_statement", <<config, parts>>)
    IN IF r.err # "" THEN r
       ELSE LET ll == Call("parse_empty_lines", <<config, r.val.first.whitespace_before, None>>)
            IN IF ll.err # "" THEN NodeErr(ll.err)
               ELSE NodeOk([type |-> "SimpleStatementLine", body |-> r.val.body,
                            leading_lines |-> ll.val,
                            trailing_whitespace |-> r.val.trailing_whitespace,
                            inflated |-> Append(r.val.inflated,
                                                r.val.first.whitespace_before.byte_offset)])

make_if(config, keyword, cond, colon, block, orelse, is_elif) ==
    LET ll == Call("parse_empty_lines", <<config, keyword.whitespace_before, None>>)
        wb == Call("parse_simple_whitespace", <<config, keyword.whitespace_after>>)
        wa == Call("parse_simple_whitespace", <<config, colon.whitespace_before>>)
    IN IF ll.err # "" THEN NodeErr(ll.err)
       ELSE IF wb.err # "" THEN NodeErr(wb.err)
       ELSE IF wa.err # "" THEN NodeErr(wa.err)
       ELSE NodeOk([type |-> "If", leading_lines |-> ll.val,
                    whitespace_before_test |-> wb.val, test |-> cond,
                    whitespace_after_test |-> wa.val, body |-> block,
                    orelse |-> orelse, is_elif |-> is_elif,
                    inflated |-> block.inflated \o InflatedBy(orelse)
                                 \o <<keyword.whitespace_before.byte_offset,
                                       keyword.whitespace_after.byte_offset,
                                       colon.whitespace_before.byte_offset>>])

make_else(config, keyword, colon, block) ==
    LET ll == Call("parse_empty_lines", <<config, keyword.whitespace_before, None>>)
        wb == Call("parse_simple_whitespace", <<config, colon.whitespace_before>>)
    IN IF ll.err # "" THEN NodeErr(ll.err)
       ELSE IF wb.err # "" THEN NodeErr(wb.err)
       ELSE NodeOk([type |-> "Else", leading_lines |-> ll.val,
                    whitespace_before_colon |-> wb.val, body |-> block,
                    inflated |-> block.inflated
                                 \o <<keyword.whitespace_before.byte_offset,
                                       colon.whitespace_before.byte_offset>>])

----------------------------------------------------------------------------
(* grammar.rs : the PEG rules over the token vector.  A rule returns        *)
(* [m, pos, val] with m one of "ok", "fail", "panic"; pos is 0-based.       *)
(* Where two alternatives of a rule start with the same sub-rule, that      *)
(* sub-rule is evaluated once: the rules and their actions are pure here.   *)

Matched(pos, v) == [m |-> "ok", pos |-> pos, val |-> v]
Failed == [m |-> "fail", pos |-> 0, val |-> None]
Panicked == [m |-> "panic", pos |-> 0, val |-> None]

\* rule lit(lit): the next token, when its string is lit
lit(toks, pos, literal) ==
    IF pos < Len(toks) /\ toks[pos + 1].string = literal
    THEN Matched(pos + 1, toks[pos + 1]) ELSE Failed

\* rule tok(tok, err): the next token, when its type is tok
tok(toks, pos, type) ==
    IF pos < Len(toks) /\ toks[pos + 1].type = type
    THEN Matched(pos + 1, toks[pos + 1]) ELSE Failed

\* the operators of each left-folded rule, one alternative per operator, in order
RuleOps(rule) ==
    CASE rule = "disjunction" -> <<S_or>>
      [] rule = "conjunction" -> <<S_and>>
      [] rule = "bitwise_or" -> << <<"|">> >>
      [] rule = "bitwise_xor" -> << <<"^">> >>
      [] rule = "bitwise_and" -> << <<"&">> >>
      [] rule = "shift_expr" -> << <<"<", "<">>, <<">", ">">> >>
      [] rule = "sum" -> << <<"+">>, <<"-">> >>
      [] rule = "term" -> << <<"*">>, <<"/">>, <<"/", "/">>, <<"%">>, <<"@">> >>

\* the rule of the head operand, and of the operands of the tail
RuleHead(rule) ==
    CASE rule = "disjunction" -> "conjunction"
      [] rule = "conjunction" -> "inversion"
      [] rule = "bitwise_or" -> "bitwise_xor"
      [] rule = "bitwise_xor" -> "bitwise_and"
      [] rule = "bitwise_and" -> "shift_expr"
      [] rule = "shift_expr" -> "sum"
      [] rule = "sum" -> "term"
      [] rule = "term" -> "factor"

RuleOperand(rule) == IF rule = "shift_expr" THEN "shift_expr" ELSE RuleHead(rule)


\* (op:lit(o) b:operand() {(op, b)})* from pos on, appended to acc
operator_tail(operand, o, toks, pos, acc) ==
    LET op == lit(toks, pos, o)
    IN IF op.m # "ok" THEN Matched(pos, acc)
       ELSE LET b == Call("expression_rule", <<operand, toks, op.pos>>)
            IN IF b.m = "panic" THEN Panicked
               ELSE IF b.m = "fail" THEN Matched(pos, acc)
               ELSE Call("operator_tail", <<operand, o, toks, b.pos,
                                  Append(acc, [op |-> op.val, right |-> b.val])>>)

\* the alternatives a:head() tail:(op b)+ of a left-folded rule, tried in order from
\* the i-th on, then the bare head a (already matched, ending at a.pos)
first_alternative(rule, i, toks, a, ops) ==
    IF i > Len(ops) THEN a
    ELSE LET tail == Call("operator_tail", <<RuleOperand(rule), ops[i], toks, a.pos, <<>>>>)
         IN IF tail.m = "panic" THEN Panicked
            ELSE IF tail.val # <<>> THEN Matched(tail.pos, Call("make_binary_op", <<a.val, tail.val>>))
            ELSE Call("first_alternative", <<rule, i + 1, toks, a, ops>>)

expression_rule(rule, toks, pos) ==
    IF rule \in {"disjunction", "conjunction", "bitwise_or", "bitwise_xor", "bitwise_and",
                 "shift_expr", "sum", "term"}
    THEN LET a == Call("expression_rule", <<RuleHead(rule), toks, pos>>)
         IN IF a.m # "ok" THEN a ELSE Call("first_alternative", <<rule, 1, toks, a, RuleOps(rule)>>)
    ELSE IF rule = "inversion"
    THEN LET op == lit(toks, pos, S_not)
             a == Call("expression_rule", <<"inversion", toks, op.pos>>)
         IN IF op.m = "ok" /\ a.m = "panic" THEN Panicked
            ELSE IF op.m = "ok" /\ a.m = "ok" THEN Matched(a.pos, Call("make_unary_op", <<op.val, a.val>>))
            ELSE Call("expression_rule", <<"comparison", toks, pos>>)
    ELSE IF rule = "comparison"
    THEN LET a == Call("expression_rule", <<"bitwise_or", toks, pos>>)
             op == IF lit(toks, a.pos, <<"=", "=">>).m = "ok"
                   THEN lit(toks, a.pos, <<"=", "=">>) ELSE lit(toks, a.pos, <<"!", "=">>)
             b == Call("expression_rule", <<"bitwise_or", toks, op.pos>>)
         IN IF a.m # "ok" THEN a
            \* make_comparison is todo!()
            ELSE IF op.m = "ok" /\ b.m # "fail" THEN Panicked
            ELSE a
    ELSE IF rule = "factor"
    THEN LET op == IF lit(toks, pos, <<"+">>).m = "ok" THEN lit(toks, pos, <<"+">>)
                   ELSE IF lit(toks, pos, <<"-">>).m = "ok" THEN lit(toks, pos, <<"-">>)
                   ELSE lit(toks, pos, <<"~">>)
             a == Call("expression_rule", <<"factor", toks, op.pos>>)
         IN IF op.m = "ok" /\ a.m = "panic" THEN Panicked
            ELSE IF op.m = "ok" /\ a.m = "ok" THEN Matched(a.pos, Call("make_unary_op", <<op.val, a.val>>))
            ELSE Call("expression_rule", <<"power", toks, pos>>)
    ELSE IF rule = "power"
    THEN LET a == Call("expression_rule", <<"atom", toks, pos>>)
             op == lit(toks, a.pos, <<"*", "*">>)
             b == Call("expression_rule", <<"factor", toks, op.pos>>)
         IN IF a.m # "ok" THEN a
            ELSE IF op.m = "ok" /\ b.m = "panic" THEN Panicked
            ELSE IF op.m = "ok" /\ b.m = "ok"
                 THEN Matched(b.pos, Call("make_binary_op", <<a.val, <<[op |-> op.val, right |-> b.val]>>>>))
            ELSE a
    ELSE \* atom (await_primary and primary are atom)
         IF lit(toks, pos, S_name).m = "ok"
         THEN Matched(pos + 1, [type |-> "Name", value |-> toks[pos + 1].string,
                                lpar |-> <<>>, rpar |-> <<>>])
         ELSE IF tok(toks, pos, "String").m = "ok"
         THEN Matched(pos + 1, [type |-> "SimpleString", value |-> toks[pos + 1].string,
                                lpar |-> <<>>, rpar |-> <<>>])
         ELSE IF tok(toks, pos, "Number").m = "ok"
         THEN Matched(pos + 1, Call("make_number", <<toks[pos + 1]>>))
         ELSE IF lit(toks, pos, <<".", ".", ".">>).m = "ok"
         THEN Matched(pos + 1, [type |-> "Ellipsis", lpar |-> <<>>, rpar |-> <<>>])
         ELSE Failed

\* rule expression (star_expressions and star_expression are expression)
expression(toks, pos) == Call("expression_rule", <<"disjunction", toks, pos>>)

\* rule named_expression: NAME := expression is todo!()
named_expression(toks, pos) ==
    LET a == tok(toks, pos, "Name")
        op == lit(toks, a.pos, <<":", "=">>)
        b == Call("expression", <<toks, op.pos>>)
        e == Call("expression", <<toks, pos>>)
    IN IF a.m = "ok" /\ op.m = "ok" /\ b.m # "fail" THEN Panicked
       ELSE IF e.m # "ok" THEN e
       ELSE IF lit(toks, e.pos, <<":", "=">>).m = "ok" THEN Failed
       ELSE e

\* rule small_stmt
small_stmt(toks, pos) ==
    LET e == Call("expression", <<toks, pos>>)
    IN IF e.m = "panic" THEN Panicked
       ELSE IF e.m = "ok" THEN Matched(e.pos, [type |-> "Expr", value |-> e.val, semicolon |-> None])
       ELSE IF lit(toks, pos, S_pass).m = "ok"
            THEN Matched(pos + 1, [type |-> "Pass", semicolon |-> None])
       ELSE Failed

\* (s:small_stmt() semi:lit(";") {(s, semi)})* from pos on, appended to acc
small_stmt_semis(toks, pos, acc) ==
    LET st == Call("small_stmt", <<toks, pos>>)
        semi == lit(toks, st.pos, <<";">>)
    IN IF st.m = "panic" THEN Panicked
       ELSE IF st.m = "ok" /\ semi.m = "ok"
            THEN Call("small_stmt_semis", <<toks, semi.pos,
                                  Append(acc, [statement |-> st.val, semi |-> semi.val])>>)
       ELSE Matched(pos, acc)

\* rule simple_stmt : val is the SimpleStatementParts
simple_stmt(toks, pos) ==
    IF pos >= Len(toks) THEN Failed
    ELSE LET statements == Call("small_stmt_semis", <<toks, pos, <<>>>>)
             last_statement == Call("small_stmt", <<toks, statements.pos>>)
             semi == lit(toks, last_statement.pos, <<";">>)
             after == IF semi.m = "ok" THEN semi.pos ELSE last_statement.pos
             nl == tok(toks, after, "Newline")
         IN IF statements.m = "panic" THEN Panicked
            ELSE IF last_statement.m # "ok" THEN last_statement
            ELSE IF nl.m # "ok" THEN Failed
            ELSE Matched(nl.pos,
                    [first |-> toks[pos + 1], statements |-> statements.val,
                     last_statement |-> last_statement.val,
                     last_semi |-> IF semi.m = "ok" THEN Some(semi.val) ELSE None,
                     nl |-> nl.val])


\* rule statements = statement()+
statements_from(config, toks, pos, acc) ==
    LET s == Call("statement", <<config, toks, pos>>)
    IN IF s.m = "panic" THEN Panicked
       ELSE IF s.m = "ok" THEN Call("statements_from", <<config, toks, s.pos, Append(acc, s.val)>>)
       ELSE IF acc = <<>> THEN Failed
       ELSE Matched(pos, acc)

statements(config, toks, pos) == Call("statements_from", <<config, toks, pos, <<>>>>)

\* rule block
block(config, toks, pos) ==
    LET n == tok(toks, pos, "Newline")
        ind == tok(toks, n.pos, "Indent")
        s == Call("statements", <<config, toks, ind.pos>>)
        ded == tok(toks, s.pos, "Dedent")
        made == Call("make_indented_block", <<config, n.val, ind.val, s.val, ded.val>>)
        indented == n.m = "ok" /\ ind.m = "ok" /\ s.m = "ok" /\ ded.m = "ok"
        simple == Call("simple_stmt", <<toks, pos>>)
        suite == Call("make_simple_statement_suite", <<config, simple.val>>)
    IN IF n.m = "ok" /\ ind.m = "ok" /\ s.m = "panic" THEN Panicked
       ELSE IF indented /\ made.err = "" THEN Matched(ded.pos, made.val)
       ELSE IF simple.m # "ok" THEN simple
       ELSE IF suite.err # "" THEN Failed
       ELSE Matched(simple.pos, suite.val)

\* rule else_block
else_block(config, toks, pos) ==
    LET el == lit(toks, pos, S_else)
        col == lit(toks, el.pos, <<":">>)
        b == Call("block", <<config, toks, col.pos>>)
        made == Call("make_else", <<config, el.val, col.val, b.val>>)
    IN IF el.m # "ok" THEN Failed
       ELSE IF col.m # "ok" THEN Failed
       ELSE IF b.m # "ok" THEN b
       ELSE IF made.err # "" THEN Failed
       ELSE Matched(b.pos, made.val)

\* rules if_stmt (keyword if) and elif_stmt (keyword elif)
if_stmt(config, toks, pos, is_elif) ==
    LET i == lit(toks, pos, IF is_elif THEN S_elif ELSE S_if)
        a == Call("named_expression", <<toks, i.pos>>)
        col == lit(toks, a.pos, <<":">>)
        b == Call("block", <<config, toks, col.pos>>)
        elif == Call("if_stmt", <<config, toks, b.pos, TRUE>>)
        with_elif == Call("make_if", <<config, i.val, a.val, col.val, b.val, Some(elif.val), is_elif>>)
        el == Call("else_block", <<config, toks, b.pos>>)
        with_else == Call("make_if", <<config, i.val, a.val, col.val, b.val,
                             IF el.m = "ok" THEN Some(el.val) ELSE None, is_elif>>)
    IN IF i.m # "ok" THEN Failed
       ELSE IF a.m # "ok" THEN a
       ELSE IF col.m # "ok" THEN Failed
       ELSE IF b.m # "ok" THEN b
       ELSE IF elif.m = "panic" THEN Panicked
       ELSE IF elif.m = "ok" /\ with_elif.err = "" THEN Matched(elif.pos, with_elif.val)
       ELSE IF el.m = "panic" THEN Panicked
       ELSE IF with_else.err # "" THEN Failed
       ELSE Matched(IF el.m = "ok" THEN el.pos ELSE b.pos, with_else.val)

\* rule compound_stmt
compound_stmt(config, toks, pos) ==
    LET f == IF lit(toks, pos, S_def).m = "ok" \/ lit(toks, pos, <<"@">>).m = "ok"
                \/ tok(toks, pos, "Async").m = "ok"
             THEN Call("function_def", <<config, toks, pos>>) ELSE Failed
    IN IF f.m # "fail" THEN f
       ELSE IF lit(toks, pos, S_if).m = "ok" THEN Call("if_stmt", <<config, toks, pos, FALSE>>)
       ELSE Failed

\* rule statement
statement(config, toks, pos) ==
    LET c == Call("compound_stmt", <<config, toks, pos>>)
        s == Call("simple_stmt", <<toks, pos>>)
        line == Call("make_simple_statement_line", <<config, s.val>>)
    IN IF c.m # "fail" THEN c
       ELSE IF s.m # "ok" THEN s
       ELSE IF line.err # "" THEN Failed
       ELSE Matched(s.pos, line.val)

\* rule file
file(config, toks) ==
    LET s == Call("statements", <<config, toks, 0>>)
    IN IF s.m # "ok" THEN s
       ELSE IF tok(toks, s.pos, "EndMarker").m # "ok" THEN Failed
       ELSE Matched(s.pos + 1, [type |-> "Module", body |-> s.val,
                                inflated |-> InflatedBy(s.val)])

----------------------------------------------------------------------------
(* Function definitions and decorators *)

\* whitespace_parser.rs : the loop of parse_parenthesized_whitespace.  The loop has
\* no exit but None: an empty line that leaves the state where it was is found
\* again at every iteration
parse_parenthesized_lines(config, st, lines) ==
    LET r == Call("parse_empty_line", <<config, st, None>>)
    IN IF r.err # "" THEN Err(r.err, r.st)
       ELSE IF r.val = None THEN Ok(st, lines)
       ELSE IF r.st = st THEN Err(Diverges, st)
       ELSE Call("parse_parenthesized_lines", <<config, r.st, Append(lines, r.val[1])>>)

\* parse_parenthesized_whitespace : val is Option<ParenthesizedWhitespace>
parse_parenthesized_whitespace(config, st) ==
    LET first_line == Call("parse_optional_trailing_whitespace", <<config, st>>)
    IN IF first_line.err # "" THEN Err(first_line.err, st)
       ELSE IF first_line.val = None THEN Ok(st, None)
       ELSE LET empty_lines == Call("parse_parenthesized_lines", <<config, first_line.st, <<>>>>)
            IN IF empty_lines.err # "" THEN empty_lines
               ELSE LET ind == Call("parse_indent", <<config, empty_lines.st, None>>)
                    IN IF ind.err # "" THEN ind
                       ELSE LET last_line == Call("parse_simple_whitespace", <<config, ind.st>>)
                            IN IF last_line.err # "" THEN last_line
                               ELSE Ok(last_line.st,
                                       Some([type |-> "ParenthesizedWhitespace",
                                             first_line |-> first_line.val[1],
                                             empty_lines |-> empty_lines.val,
                                             indent |-> ind.val,
                                             last_line |-> last_line.val]))

\* a variant that does not look at is_parenthesized
parse_parenthesizable_whitespace_anywhere(config, st) ==
    LET pw == Call("parse_parenthesized_whitespace", <<config, st>>)
        sw == Call("parse_simple_whitespace", <<config, st>>)
    IN IF pw.err # "" THEN pw
       ELSE IF pw.val # None THEN Ok(pw.st, pw.val[1])
       ELSE IF sw.err # "" THEN sw
       ELSE Ok(sw.st, [type |-> "SimpleWhitespace", value |-> sw.val])

\* parse_parenthesizable_whitespace
parse_parenthesizable_whitespace(config, st) ==
    LET pw == IF st.is_parenthesized
              THEN Call("parse_parenthesized_whitespace", <<config, st>>) ELSE Ok(st, None)
        sw == Call("parse_simple_whitespace", <<config, st>>)
    IN IF pw.err # "" THEN pw
       ELSE IF pw.val # None THEN Ok(pw.st, pw.val[1])
       ELSE IF sw.err # "" THEN sw
       ELSE Ok(sw.st, [type |-> "SimpleWhitespace", value |-> sw.val])

\* Parameters::default : what make_function_def stores when the rule matched none
DefaultParameters ==
    [params |-> <<>>, star_arg |-> None, kwonly_params |-> <<>>, star_kwarg |-> None,
     posonly_params |-> <<>>, posonly_ind |-> None]

\* make_function_def
make_function_def(config, def, name, open_paren, params, colon, body) ==
    LET ll == Call("parse_empty_lines", <<config, def.whitespace_before, None>>)
        wd == Call("parse_simple_whitespace", <<config, def.whitespace_after>>)
        wn == Call("parse_simple_whitespace", <<config, name.whitespace_after>>)
        wc == Call("parse_simple_whitespace", <<config, colon.whitespace_before>>)
        wp == Call("parse_parenthesizable_whitespace", <<config, open_paren.whitespace_after>>)
    IN IF ll.err # "" THEN NodeErr(ll.err)
       ELSE IF wd.err # "" THEN NodeErr(wd.err)
       ELSE IF wn.err # "" THEN NodeErr(wn.err)
       ELSE IF wc.err # "" THEN NodeErr(wc.err)
       ELSE IF wp.err # "" THEN NodeErr(wp.err)
       ELSE NodeOk([type |-> "FunctionDef",
                    name |-> [type |-> "Name", value |-> name.string,
                              lpar |-> <<>>, rpar |-> <<>>],
                    params |-> IF params = None THEN DefaultParameters ELSE params[1],
                    decorators |-> <<>>, body |-> body,
                    leading_lines |-> ll.val, lines_after_decorators |-> <<>>,
                    whitespace_after_def |-> wd.val, whitespace_after_name |-> wn.val,
                    whitespace_before_colon |-> wc.val,
                    whitespace_before_params |-> wp.val,
                    inflated |-> body.inflated
                                 \o <<def.whitespace_before.byte_offset,
                                       def.whitespace_after.byte_offset,
                                       name.whitespace_after.byte_offset,
                                       colon.whitespace_before.byte_offset,
                                       open_paren.whitespace_after.byte_offset>>])

\* make_decorator : the Newline token is not a parameter and trailing_whitespace is
\* the default one, whatever follows the name on the line
make_decorator(config, at, name) ==
    LET ll == Call("parse_empty_lines", <<config, at.whitespace_before, None>>)
        wa == Call("parse_simple_whitespace", <<config, at.whitespace_after>>)
    IN IF ll.err # "" THEN NodeErr(ll.err)
       ELSE IF wa.err # "" THEN NodeErr(wa.err)
       ELSE NodeOk([decorator |-> [type |-> "Name", value |-> name.string,
                                   lpar |-> <<>>, rpar |-> <<>>],
                    leading_lines |-> ll.val, whitespace_after_at |-> wa.val,
                    trailing_whitespace |-> TrailingWhitespace(<<>>, None, Newline(None, FALSE)),
                    inflated |-> <<at.whitespace_before.byte_offset,
                                   at.whitespace_after.byte_offset>>])

\* FunctionDef::with_decorators
with_decorators(self, decs) ==
    [self EXCEPT
        !.decorators = IF decs = <<>> THEN decs
                       ELSE <<[Head(decs) EXCEPT !.leading_lines = <<>>]>> \o Tail(decs),
        !.leading_lines = IF decs = <<>> THEN <<>> ELSE Head(decs).leading_lines,
        !.lines_after_decorators = self.leading_lines,
        !.inflated = InflatedBy(decs) \o @]

\* rule decorators, from pos on, the decorators matched so far being in acc
decorators(config, toks, pos, acc) ==
    LET at == lit(toks, pos, <<"@">>)
        name == tok(toks, at.pos, "Name")
        nl == tok(toks, name.pos, "Newline")
        made == Call("make_decorator", <<config, at.val, name.val>>)
    IN IF at.m = "ok" /\ name.m = "ok" /\ nl.m = "ok" /\ made.err = ""
       THEN Call("decorators", <<config, toks, nl.pos, Append(acc, made.val)>>)
       ELSE IF acc = <<>> THEN Failed
       ELSE Matched(pos, acc)

\* rule function_def_raw.  Rule params is optional and is not modelled: the
\* parameter lists of the texts of this model are empty.
function_def_raw(config, toks, pos) ==
    LET def == lit(toks, pos, S_def)
        n == tok(toks, def.pos, "Name")
        op == lit(toks, n.pos, <<"(">>)
        cp == lit(toks, op.pos, <<")">>)
        c == lit(toks, cp.pos, <<":">>)
        b == Call("block", <<config, toks, c.pos>>)
        made == Call("make_function_def", <<config, def.val, n.val, op.val, None, c.val, b.val>>)
    IN IF def.m # "ok" \/ n.m # "ok" \/ op.m # "ok" \/ cp.m # "ok" \/ c.m # "ok" THEN Failed
       ELSE IF b.m # "ok" THEN b
       ELSE IF made.err # "" THEN Failed
       ELSE Matched(b.pos, made.val)

\* rule function_def
function_def(config, toks, pos) ==
    LET d == Call("decorators", <<config, toks, pos, <<>>>>)
        f == Call("function_def_raw", <<config, toks, d.pos>>)
    IN IF d.m = "ok" /\ f.m = "panic" THEN Panicked
       ELSE IF d.m = "ok" /\ f.m = "ok" THEN Matched(f.pos, with_decorators(f.val, d.val))
       ELSE Call("function_def_raw", <<config, toks, pos>>)

\* expression.rs : Name
Name_codegen(self, state) ==
    Call("RightParens_codegen", <<self.rpar,
        add_token(Call("LeftParens_codegen", <<self.lpar, state>>), self.value)>>)

\* Comma : the whitespace before it, the comma, the whitespace after it
Comma_codegen(self, state) ==
    Call("ParenthesizableWhitespace_codegen",
         <<self.whitespace_after,
           add_token(Call("ParenthesizableWhitespace_codegen", <<self.whitespace_before, state>>),
                     <<",">>)>>)

\* AssignEqual : the whitespace before it, the equal sign, the whitespace after it
AssignEqual_codegen(self, state) ==
    Call("ParenthesizableWhitespace_codegen",
         <<self.whitespace_after,
           add_token(Call("ParenthesizableWhitespace_codegen", <<self.whitespace_before, state>>),
                     <<"=">>)>>)

\* expression.rs : ParamSlash::codegen
ParamSlash_codegen(self, state, default_comma) ==
    LET s1 == add_token(state, <<"/">>)
    IN IF self.comma # None THEN Call("Comma_codegen", <<self.comma[1], s1>>)
       ELSE IF default_comma THEN add_token(s1, <<",", " ">>)
       ELSE s1

\* expression.rs : ParamStar
ParamStar_codegen(self, state) ==
    Call("Comma_codegen", <<self.comma, add_token(state, <<"*">>)>>)

\* expression.rs : Param::codegen
Param_codegen(self, state, default_star, default_comma) ==
    LET s1 == IF self.star # None THEN add_token(state, self.star[1])
              ELSE IF default_star # None THEN add_token(state, default_star[1])
              ELSE state
        s2 == Call("ParenthesizableWhitespace_codegen", <<self.whitespace_after_star, s1>>)
        s3 == Call("Name_codegen", <<self.name, s2>>)
        s4 == IF self.equal # None /\ self.default # None
              THEN Call("Expression_codegen",
                        <<self.default[1], Call("AssignEqual_codegen", <<self.equal[1], s3>>)>>)
              ELSE IF self.default # None
              THEN Call("Expression_codegen", <<self.default[1], add_token(s3, <<" ", "=", " ">>)>>)
              ELSE s3
        s5 == IF self.comma # None THEN Call("Comma_codegen", <<self.comma[1], s4>>)
              ELSE IF default_comma THEN add_token(s4, <<",", " ">>)
              ELSE s4
    IN Call("ParenthesizableWhitespace_codegen", <<self.whitespace_after_param, s5>>)

\* the loops of Parameters::codegen over a list of parameters:
\* p.codegen(state, None, after || i < size - 1)
Params_codegen(ps, state, after) ==
    IF ps = <<>> THEN state
    ELSE Call("Params_codegen",
              <<Tail(ps),
                Call("Param_codegen", <<Head(ps), state, None, after \/ Len(ps) > 1>>),
                after>>)

\* expression.rs : Parameters
Parameters_codegen(self, state) ==
    LET params_after_kwonly == self.star_kwarg # None
        params_after_regular == self.kwonly_params # <<>> \/ params_after_kwonly
        params_after_posonly == self.params # <<>> \/ params_after_regular
        star_included == self.star_arg # None \/ self.kwonly_params # <<>>
        s1 == Call("Params_codegen", <<self.posonly_params, state, TRUE>>)
        s2 == IF self.posonly_ind # None
              THEN Call("ParamSlash_codegen", <<self.posonly_ind[1], s1, params_after_posonly>>)
              ELSE IF self.posonly_params # <<>>
              THEN IF params_after_posonly THEN add_token(s1, <<"/", ",", " ">>)
                   ELSE add_token(s1, <<"/">>)
              ELSE s1
        s3 == Call("Params_codegen", <<self.params, s2, params_after_regular>>)
        s4 == IF self.star_arg = None
              THEN IF star_included THEN add_token(s3, <<"*", ",", " ">>) ELSE s3
              ELSE IF self.star_arg[1].type = "Param"
              THEN Call("Param_codegen",
                        <<self.star_arg[1].value, s3, Some(<<"*">>),
                          self.kwonly_params # <<>> \/ self.star_kwarg # None>>)
              ELSE Call("ParamStar_codegen", <<self.star_arg[1].value, s3>>)
        s5 == Call("Params_codegen", <<self.kwonly_params, s4, params_after_kwonly>>)
    IN IF self.star_kwarg # None
       THEN Call("Param_codegen", <<self.star_kwarg[1], s5, Some(<<"*", "*">>), FALSE>>)
       ELSE s5

\* statement.rs : Decorator
Decorator_codegen(self, state) ==
    LET s1 == Call("EmptyLines_codegen", <<self.leading_lines, state>>)
        s2 == SimpleWhitespace_codegen(self.whitespace_after_at,
                                       add_token(add_indent(s1), <<"@">>))
    IN Call("TrailingWhitespace_codegen",
            <<self.trailing_whitespace, Call("Name_codegen", <<self.decorator, s2>>)>>)

Decorators_codegen(decs, state) ==
    IF decs = <<>> THEN state
    ELSE Call("Decorators_codegen",
              <<Tail(decs), Call("Decorator_codegen", <<Head(decs), state>>)>>)

\* statement.rs : FunctionDef
FunctionDef_codegen(self, state) ==
    LET s1 == Call("EmptyLines_codegen", <<self.leading_lines, state>>)
        s2 == Call("Decorators_codegen", <<self.decorators, s1>>)
        s3 == Call("EmptyLines_codegen", <<self.lines_after_decorators, s2>>)
        s4 == SimpleWhitespace_codegen(self.whitespace_after_def,
                                       add_token(add_indent(s3), S_def))
        s5 == SimpleWhitespace_codegen(self.whitespace_after_name,
                                       Call("Name_codegen", <<self.name, s4>>))
        s6 == Call("ParenthesizableWhitespace_codegen",
                   <<self.whitespace_before_params, add_token(s5, <<"(">>)>>)
        s7 == add_token(Call("Parameters_codegen", <<self.params, s6>>), <<")">>)
        s8 == add_token(SimpleWhitespace_codegen(self.whitespace_before_colon, s7), <<":">>)
    IN Call("Suite_codegen", <<self.body, s8>>)

----------------------------------------------------------------------------
(* lib.rs : parse_module *)

BOM == "BOM"

\* parse_module, lines 47-49
StripBOM(module_text) ==
    IF module_text # <<>> /\ Head(module_text) = BOM THEN Tail(module_text) ELSE module_text

\* ParserError::TokenizerError(kind), lib.rs 29-30
TokenizerError(kind) == [err |-> "TokenizerError", val |-> None, cause |-> Some(kind)]

\* the result r of an entry point, with the calls it made in order
Returned(stages, r) ==
    [err |-> r.err, val |-> r.val,
     cause |-> IF "cause" \in DOMAIN r THEN r.cause ELSE None,
     stages |-> stages]

\* parse_tokens_without_whitespace : rule file on the tokens, the whitespace being
\* read from module_text
parse_tokens_without_whitespace(tokens, module_text) ==
    LET m == Call("file", <<NewConfig(module_text), tokens>>)
    IN IF m.m = "panic" THEN NodeErr(Panic)
       ELSE IF m.m = "fail" THEN NodeErr("ParserError")
       ELSE NodeOk(m.val)

\* parse_whitespace : inflate on a node of this grammar, whose constructors have
\* already read its whitespace, leaves the node as it is
parse_whitespace(m, module_text) == NodeOk(m)

\* parse_module going on to the grammar with the tokens read before the error
parse_module_unchecked(text) ==
    LET module_text == StripBOM(text)
        tokens == Call("tokenize", <<module_text>>)
        m == Call("parse_tokens_without_whitespace", <<tokens.tokens, module_text>>)
    IN IF m.err # ""
       THEN Returned(<<"strip_prefix", "tokenize", "file">>, m)
       ELSE Returned(<<"strip_prefix", "tokenize", "file", "parse_whitespace">>,
                     parse_whitespace(m.val, module_text))

\* parse_module : [err, val, cause, stages]
parse_module(text) ==
    LET module_text == StripBOM(text)
        tokens == Call("tokenize", <<module_text>>)
        m == Call("parse_tokens_without_whitespace", <<tokens.tokens, module_text>>)
    IN IF tokens.err # ""
       THEN Returned(<<"strip_prefix", "tokenize">>, TokenizerError(tokens.err))
       ELSE IF m.err # ""
       THEN Returned(<<"strip_prefix", "tokenize", "file">>, m)
       ELSE Returned(<<"strip_prefix", "tokenize", "file", "parse_whitespace">>,
                     parse_whitespace(m.val, module_text))

\* Vec::pop : drops the last token, when there is one
PopToken(tokens) == IF tokens = <<>> THEN <<>> ELSE Take(tokens, Len(tokens) - 1)

\* LineCol of a position of a token
LineCol(p) == [line |-> p.line, column |-> p.column, offset |-> p.offset]

\* position_repr : the location of the token at pos, of the last token when there
\* is none at pos; unwrap panics when the vector has no last token
position_repr(toks, pos) ==
    IF pos >= Len(toks) /\ toks = <<>> THEN [panicked |-> TRUE, loc |-> None]
    ELSE LET found == IF pos < Len(toks) THEN toks[pos + 1] ELSE toks[Len(toks)]
         IN [panicked |-> FALSE,
             loc |-> Some([start_pos |-> LineCol(found.start_pos),
                           end_pos |-> LineCol(found.end_pos)])]

\* the error of an entry rule that failed, or that matched without reaching the end
\* of the token vector: its location is position_repr of the failure position,
\* which is a position of the vector or its end
GrammarError(toks) ==
    IF \E pos \in 0..Len(toks) : position_repr(toks, pos).panicked THEN NodeErr(Panic)
    ELSE NodeErr("ParserError")

\* parse_statement : [err, val, cause, stages]
parse_statement(text) ==
    LET tokens == Call("tokenize", <<text>>)
        toks == PopToken(tokens.tokens)
        stm == Call("statement", <<NewConfig(text), toks, 0>>)
    IN IF tokens.err # "" THEN Returned(<<"tokenize">>, TokenizerError(tokens.err))
       ELSE IF stm.m = "panic" THEN Returned(<<"tokenize", "statement">>, NodeErr(Panic))
       ELSE IF stm.m = "fail" \/ stm.pos < Len(toks)
       THEN Returned(<<"tokenize", "statement">>, GrammarError(toks))
       ELSE Returned(<<"tokenize", "statement", "parse_whitespace">>,
                     parse_whitespace(stm.val, text))

\* parse_expression : [err, val, cause, stages]
parse_expression(text) ==
    LET tokens == Call("tokenize", <<text>>)
        toks == PopToken(PopToken(tokens.tokens))
        expr == Call("expression", <<toks, 0>>)
    IN IF tokens.err # "" THEN Returned(<<"tokenize">>, TokenizerError(tokens.err))
       ELSE IF expr.m = "panic" THEN Returned(<<"tokenize", "expression">>, NodeErr(Panic))
       ELSE IF expr.m = "fail" \/ expr.pos < Len(toks)
       THEN Returned(<<"tokenize", "expression">>, GrammarError(toks))
       ELSE Returned(<<"tokenize", "expression", "parse_whitespace">>,
                     parse_whitespace(expr.val, text))

\* str::match_indices('\n') : the byte indexes (0-based) of the line feeds, in order
RECURSIVE match_indices(_, _)
match_indices(source, from) ==
    IF from > Len(source) THEN <<>>
    ELSE (IF source[from] = "\n" THEN <<from - 1>> ELSE <<>>)
         \o match_indices(source, from + 1)

\* bol_offset : n starts from 1
bol_offset(source, n) ==
    IF n <= 1 THEN 0
    ELSE LET indices == match_indices(source, 1)
         IN IF n - 1 <= Len(indices) THEN indices[n - 1] + 1 ELSE Len(source)

----------------------------------------------------------------------------
(* The call of the function named f with the arguments a, evaluated once *)
(* before the call.  The functions above call one another through it.   *)

Call(f, a) ==
    CHOOSE r \in
        { CASE f = "advance_to_next_line" -> advance_to_next_line(v[1], v[2])
           [] f = "advance_this_line" -> advance_this_line(v[1], v[2], v[3], v[4])
           [] f = "parse_indent" -> parse_indent(v[1], v[2], v[3])
           [] f = "capture_ws_loop" -> capture_ws_loop(v[1], v[2])
           [] f = "parse_simple_whitespace" -> parse_simple_whitespace(v[1], v[2])
           [] f = "parse_comment" -> parse_comment(v[1], v[2])
           [] f = "parse_newline" -> parse_newline(v[1], v[2])
           [] f = "parse_empty_line" -> parse_empty_line(v[1], v[2], v[3])
           [] f = "_parse_all_empty_lines" -> _parse_all_empty_lines(v[1], v[2], v[3], v[4])
           [] f = "find_last_line_from" -> find_last_line_from(v[1], v[2], v[3], v[4], v[5])
           [] f = "find_last_line_at" -> find_last_line_at(v[1], v[2], v[3])
           [] f = "parse_empty_lines_kept" -> parse_empty_lines_kept(v[1], v[2], v[3])
           [] f = "parse_empty_lines" -> parse_empty_lines(v[1], v[2], v[3])
           [] f = "parse_all_empty_lines" -> parse_all_empty_lines(v[1], v[2])
           [] f = "parse_optional_trailing_whitespace" -> parse_optional_trailing_whitespace(v[1], v[2])
           [] f = "parse_trailing_whitespace" -> parse_trailing_whitespace(v[1], v[2])
           [] f = "Newline_codegen" -> Newline_codegen(v[1], v[2])
           [] f = "TrailingWhitespace_codegen" -> TrailingWhitespace_codegen(v[1], v[2])
           [] f = "EmptyLine_codegen" -> EmptyLine_codegen(v[1], v[2])
           [] f = "EmptyLines_codegen" -> EmptyLines_codegen(v[1], v[2])
           [] f = "ParenthesizedWhitespace_codegen" ->
                  ParenthesizedWhitespace_codegen(v[1], v[2])
           [] f = "ParenthesizableWhitespace_codegen" ->
                  ParenthesizableWhitespace_codegen(v[1], v[2])
           [] f = "LeftParen_codegen" -> LeftParen_codegen(v[1], v[2])
           [] f = "RightParen_codegen" -> RightParen_codegen(v[1], v[2])
           [] f = "LeftParens_codegen" -> LeftParens_codegen(v[1], v[2])
           [] f = "RightParens_codegen" -> RightParens_codegen(v[1], v[2])
           [] f = "Expression_codegen" -> Expression_codegen(v[1], v[2])
           [] f = "SmallStatement_codegen" -> SmallStatement_codegen(v[1], v[2])
           [] f = "SmallStatements_codegen" -> SmallStatements_codegen(v[1], v[2])
           [] f = "_simple_statement_codegen" -> _simple_statement_codegen(v[1], v[2], v[3])
           [] f = "SimpleStatementSuite_codegen" -> SimpleStatementSuite_codegen(v[1], v[2])
           [] f = "SimpleStatementLine_codegen" -> SimpleStatementLine_codegen(v[1], v[2])
           [] f = "IndentedBlockBody_codegen" -> IndentedBlockBody_codegen(v[1], v[2])
           [] f = "IndentedBlock_codegen" -> IndentedBlock_codegen(v[1], v[2])
           [] f = "Suite_codegen" -> Suite_codegen(v[1], v[2])
           [] f = "Else_codegen" -> Else_codegen(v[1], v[2])
           [] f = "If_codegen" -> If_codegen(v[1], v[2])
           [] f = "Statement_codegen" -> Statement_codegen(v[1], v[2])
           [] f = "Statements_codegen" -> Statements_codegen(v[1], v[2])
           [] f = "Module_codegen" -> Module_codegen(v[1], v[2])
           [] f = "TokenizeRest" -> TokenizeRest(v[1], v[2], v[3], v[4], v[5], v[6], v[7])
           [] f = "TokenizeLines" -> TokenizeLines(v[1], v[2], v[3], v[4], v[5], v[6])
           [] f = "tokenize" -> tokenize(v[1])
           [] f = "make_binary_op_fold" -> make_binary_op_fold(v[1], v[2])
           [] f = "make_binary_op" -> make_binary_op(v[1], v[2])
           [] f = "make_unary_op" -> make_unary_op(v[1], v[2])
           [] f = "make_number" -> make_number(v[1])
           [] f = "make_indented_block" -> make_indented_block(v[1], v[2], v[3], v[4], v[5])
           [] f = "_make_simple_statement" -> _make_simple_statement(v[1], v[2])
           [] f = "make_simple_statement_suite" -> make_simple_statement_suite(v[1], v[2])
           [] f = "make_simple_statement_line" -> make_simple_statement_line(v[1], v[2])
           [] f = "make_if" -> make_if(v[1], v[2], v[3], v[4], v[5], v[6], v[7])
           [] f = "make_else" -> make_else(v[1], v[2], v[3], v[4])
           [] f = "operator_tail" -> operator_tail(v[1], v[2], v[3], v[4], v[5])
           [] f = "first_alternative" -> first_alternative(v[1], v[2], v[3], v[4], v[5])
           [] f = "expression_rule" -> expression_rule(v[1], v[2], v[3])
           [] f = "expression" -> expression(v[1], v[2])
           [] f = "named_expression" -> named_expression(v[1], v[2])
           [] f = "small_stmt" -> small_stmt(v[1], v[2])
           [] f = "small_stmt_semis" -> small_stmt_semis(v[1], v[2], v[3])
           [] f = "simple_stmt" -> simple_stmt(v[1], v[2])
           [] f = "statements_from" -> statements_from(v[1], v[2], v[3], v[4])
           [] f = "statements" -> statements(v[1], v[2], v[3])
           [] f = "block" -> block(v[1], v[2], v[3])
           [] f = "else_block" -> else_block(v[1], v[2], v[3])
           [] f = "if_stmt" -> if_stmt(v[1], v[2], v[3], v[4])
           [] f = "compound_stmt" -> compound_stmt(v[1], v[2], v[3])
           [] f = "statement" -> statement(v[1], v[2], v[3])
           [] f = "file" -> file(v[1], v[2])
           [] f = "parse_parenthesized_lines" -> parse_parenthesized_lines(v[1], v[2], v[3])
           [] f = "parse_parenthesized_whitespace" ->
                  parse_parenthesized_whitespace(v[1], v[2])
           [] f = "parse_parenthesizable_whitespace" ->
                  parse_parenthesizable_whitespace(v[1], v[2])
           [] f = "make_function_def" ->
                  make_function_def(v[1], v[2], v[3], v[4], v[5], v[6], v[7])
           [] f = "make_decorator" -> make_decorator(v[1], v[2], v[3])
           [] f = "decorators" -> decorators(v[1], v[2], v[3], v[4])
           [] f = "function_def_raw" -> function_def_raw(v[1], v[2], v[3])
           [] f = "function_def" -> function_def(v[1], v[2], v[3])
           [] f = "Name_codegen" -> Name_codegen(v[1], v[2])
           [] f = "Decorator_codegen" -> Decorator_codegen(v[1], v[2])
           [] f = "Decorators_codegen" -> Decorators_codegen(v[1], v[2])
           [] f = "FunctionDef_codegen" -> FunctionDef_codegen(v[1], v[2])
           [] f = "parse_module" -> parse_module(v[1])
           [] f = "parse_tokens_without_whitespace" ->
                  parse_tokens_without_whitespace(v[1], v[2])
           [] f = "parse_statement" -> parse_statement(v[1])
           [] f = "parse_lines_from_end" -> parse_lines_from_end(v[1], v[2], v[3])
           [] f = "parse_empty_lines_from_end" -> parse_empty_lines_from_end(v[1], v[2])
           [] f = "Comma_codegen" -> Comma_codegen(v[1], v[2])
           [] f = "AssignEqual_codegen" -> AssignEqual_codegen(v[1], v[2])
           [] f = "ParamSlash_codegen" -> ParamSlash_codegen(v[1], v[2], v[3])
           [] f = "ParamStar_codegen" -> ParamStar_codegen(v[1], v[2])
           [] f = "Param_codegen" -> Param_codegen(v[1], v[2], v[3], v[4])
           [] f = "Params_codegen" -> Params_codegen(v[1], v[2], v[3])
           [] f = "Parameters_codegen" -> Parameters_codegen(v[1], v[2])
           [] f = "parse_expression" -> parse_expression(v[1]) : v \in {a} } : TRUE

----------------------------------------------------------------------------
(* The inputs of parse_module: texts built from whole lines. *)

MaxGap == 3      \* empty/comment-only lines between a block and what follows it
MaxStmts == 2    \* simple statement lines of a text without blocks

\* sequences over set of length 0..n
RECURSIVE SeqsUpTo(_, _)
SeqsUpTo(set, n) ==
    IF n = 0 THEN {<<>>}
    ELSE SeqsUpTo(set, n - 1)
         \cup {Append(q, x) : q \in {r \in SeqsUpTo(set, n - 1) : Len(r) = n - 1}, x \in set}

\* empty and comment-only lines: at column 0, between, at and beyond the block indents
GapLines ==
    { <<"\n">>, <<" ", " ", "\n">>, <<"#", "\n">>, <<" ", " ", "#", "\n">>,
      <<" ", " ", " ", " ", "#", "\n">>,
      <<" ", " ", " ", " ", " ", " ", " ", " ", "#", "\n">> }

Line_if == <<"i", "f", " ", "1", ":", "\n">>
Line_pass == <<"p", "a", "s", "s", "\n">>
Indent4 == <<" ", " ", " ", " ">>

BlockHeads ==
    { Line_if \o Indent4 \o Line_pass,
      Line_if \o Indent4 \o Line_if \o Indent4 \o Indent4 \o Line_pass }

BlockTails ==
    { Line_pass, S_pass, <<"e", "l", "s", "e", ":", "\n">> \o Indent4 \o Line_pass }

BlockTexts ==
    { h \o Flatten(g) \o t : h \in BlockHeads, g \in SeqsUpTo(GapLines, MaxGap), t \in BlockTails }

SimpleLines ==
    { Line_pass,
      <<"p", "a", "s", "s", ";", "p", "a", "s", "s", "\n">>,
      <<"p", "a", "s", "s", " ", ";", " ", "1", "\n">>,
      <<"p", "a", "s", "s", ";", "\n">>,
      <<"1", "+", "2", "\n">>,
      <<"1", " ", "+", " ", "2", "\n">>,
      <<"#", "\n", "p", "a", "s", "s", " ", "#", "\n">>,
      <<"i", "f", " ", "1", ":", " ", "p", "a", "s", "s", "\n">> }

SimpleTexts ==
    LET body == {Flatten(q) : q \in SeqsUpTo(SimpleLines, MaxStmts) \ {<<>>}}
        ends == body \cup {Take(b, Len(b) - 1) : b \in body}
    IN ends \cup {<<BOM>> \o b : b \in ends}

Texts == BlockTexts \cup SimpleTexts

----------------------------------------------------------------------------
(* parse_module followed by codegen on a fresh default CodegenState *)

NoCall == [op |-> "none", override |-> None, err |-> "", val |-> None]
NoResult == [err |-> "none", val |-> None]
NoNode == [type |-> "none"]

Init ==
    /\ input \in Texts
    /\ pc = "start"
    /\ wsState = DefaultState
    /\ wsPrev = DefaultState
    /\ wsCall = NoCall
    /\ parsed = NoResult
    /\ output = CodegenStateDefault
    /\ cgNode = NoNode
    /\ cgBefore = CodegenStateDefault
    /\ cgAfter = CodegenStateDefault

ParseModule ==
    /\ pc = "start"
    /\ parsed' = Call("parse_module", <<input>>)
    /\ pc' = IF parsed'.err = "" THEN "parsed" ELSE "failed"
    /\ UNCHANGED <<input, wsState, wsPrev, wsCall, output, cgNode, cgBefore, cgAfter>>

Codegen ==
    /\ pc = "parsed"
    /\ output' = Call("Module_codegen", <<parsed.val, CodegenStateDefault>>)
    /\ pc' = "done"
    /\ UNCHANGED <<input, wsState, wsPrev, wsCall, parsed, cgNode, cgBefore, cgAfter>>

Next == ParseModule \/ Codegen

Spec == Init /\ [][Next]_vars

----------------------------------------------------------------------------
(* Round trip *)

Parsed == pc \in {"parsed", "done"}
Generated == pc = "done" /\ ~output.panicked

\* C1: the code generated from the parsed module is the source text, byte for byte
C1_RoundTrip == Generated => output.tokens = input

\* C2: for a text that starts with a byte order mark, the generated code is the
\* text, byte order mark included
C2_BomRoundTrip ==
    Generated /\ input # <<>> /\ Head(input) = BOM => output.tokens = input

----------------------------------------------------------------------------
(* Ownership of the empty and comment-only lines at the end of a block.     *)
(* The owners at a closing point are the footers of the blocks its Dedent   *)
(* tokens close and the leading_lines of the statement (or else/elif) that  *)
(* follows; a line is named by its number in the source.                    *)

SourceConfig == NewConfig(StripBOM(input))
SourceTokens == tokenize(StripBOM(input)).tokens

\* the Indent token of the block that the Dedent token at d closes
RECURSIVE MatchUp(_, _, _)
MatchUp(toks, p, depth) ==
    IF p < 1 THEN 0
    ELSE IF toks[p].type = "Dedent" THEN MatchUp(toks, p - 1, depth + 1)
    ELSE IF toks[p].type = "Indent"
         THEN (IF depth = 0 THEN p ELSE MatchUp(toks, p - 1, depth - 1))
    ELSE MatchUp(toks, p - 1, depth)

MatchingIndent(toks, d) == MatchUp(toks, d - 1, 0)

\* the first Dedent of each run of Dedent tokens
ClosingPoints(toks) ==
    {i \in 1..Len(toks) : toks[i].type = "Dedent" /\ (i = 1 \/ toks[i - 1].type # "Dedent")}

\* the token after the run of Dedent tokens that starts at i
RECURSIVE Follower(_, _)
Follower(toks, i) == IF toks[i].type = "Dedent" THEN Follower(toks, i + 1) ELSE i

\* the owners at the closing point i: Dedent tokens (footers) and the follower
\* (leading_lines) unless it is the end marker
Owners(toks, i) ==
    (i..(Follower(toks, i) - 1))
        \cup (IF toks[Follower(toks, i)].type = "EndMarker" THEN {} ELSE {Follower(toks, i)})

\* make_indented_block's footer and make_*'s leading_lines, with the scan states
OwnedPairs(config, toks, o) ==
    IF toks[o].type = "Dedent"
    THEN parse_empty_lines_kept(config, toks[o].whitespace_after,
             Some(toks[MatchingIndent(toks, o)].whitespace_before.absolute_indent)).val
    ELSE parse_empty_lines_kept(config, toks[o].whitespace_before, None).val

OwnedLines(config, toks, o) ==
    LET pairs == OwnedPairs(config, toks, o)
    IN {LineNumberOf(pairs[k].st) : k \in 1..Len(pairs)}

\* the source lines between the last statement of the block and the follower
GapLineNumbers(toks, i) ==
    toks[i].whitespace_after.line .. (toks[Follower(toks, i)].whitespace_after.line - 1)

\* the lines of each owner at the closing point i
OwnedAt(config, toks, i) == [o \in Owners(toks, i) |-> OwnedLines(config, toks, o)]

\* C3: no line is owned twice: not by a footer and the following statement's
\* leading_lines, and not by the footers of two nested blocks closing together
C3_NoDoubleOwnership ==
    Parsed =>
        LET toks == SourceTokens
            config == SourceConfig
        IN \A i \in ClosingPoints(toks) :
              LET owned == OwnedAt(config, toks, i)
              IN \A o1, o2 \in DOMAIN owned : o1 # o2 => owned[o1] \cap owned[o2] = {}

\* two nested blocks close together, each footer owns a line and so does the
\* statement that follows
C3_Witness ==
    /\ pc = "done"
    /\ LET toks == SourceTokens
           config == SourceConfig
       IN \E i \in ClosingPoints(toks) :
             /\ Follower(toks, i) >= i + 2
             /\ toks[Follower(toks, i)].type # "EndMarker"
             /\ \A o \in Owners(toks, i) : OwnedLines(config, toks, o) # {}

\* C4: every empty or comment-only line between the last statement of a block and
\* the following statement is owned by a footer or by the leading_lines
C4_TotalAttribution ==
    Parsed =>
        LET toks == SourceTokens
            config == SourceConfig
        IN \A i \in ClosingPoints(toks) :
              toks[Follower(toks, i)].type # "EndMarker" =>
                  LET owned == OwnedAt(config, toks, i)
                  IN \A n \in GapLineNumbers(toks, i) : \E o \in DOMAIN owned : n \in owned[o]

----------------------------------------------------------------------------
(* Semicolons *)

CountOf(s, c) == Cardinality({i \in 1..Len(s) : s[i] = c})

\* C10: a line of n >= 2 small statements is generated with its n - 1 separating
\* semicolons
C10_Semicolons ==
    Parsed =>
        \A i \in 1..Len(parsed.val.body) :
            LET line == parsed.val.body[i]
            IN line.type = "SimpleStatementLine" /\ Len(line.body) >= 2 =>
                  CountOf(SimpleStatementLine_codegen(line, CodegenStateDefault).tokens, ";")
                      >= Len(line.body) - 1

----------------------------------------------------------------------------
(* The whitespace parsers called on the scan states of a text.  A scan     *)
(* state is the default state, a state a token carries, or the state a     *)
(* previous call has left.                                                 *)

MaxWsLines == 2    \* physical lines of a text

WsLines ==
    { <<"\n">>, <<"#", "\n">>, <<" ", "\n">>, <<" ", "#", "\n">>, <<" ", " ", "#", "\n">>,
      <<" ", " ", "\n">>, <<"x", " ", "#", "\n">>, <<"\r", "\n">>, <<"#", "\r">> }

\* whole lines, the last one with or without its last byte
WsTexts ==
    LET whole == {Flatten(q) : q \in SeqsUpTo(WsLines, MaxWsLines)}
    IN whole \cup {Take(t, Len(t) - 1) : t \in whole \ {<<>>}}

WsOverrides == {None, Some(<<>>), Some(<<" ">>), Some(<<" ", " ">>)}

WsCall(op, override, r) == [op |-> op, override |-> override, err |-> r.err, val |-> r.val]

InitWs ==
    /\ input \in WsTexts
    /\ pc = "ws"
    /\ wsState = DefaultState
    /\ wsPrev = DefaultState
    /\ wsCall = NoCall
    /\ parsed = NoResult
    /\ output = CodegenStateDefault
    /\ cgNode = NoNode
    /\ cgBefore = CodegenStateDefault
    /\ cgAfter = CodegenStateDefault

WsStep(op, override, r) ==
    /\ wsPrev' = wsState
    /\ \E res \in {r} :
          /\ wsState' = res.st
          /\ wsCall' = WsCall(op, override, res)
    /\ UNCHANGED <<input, pc, parsed, output, cgNode, cgBefore, cgAfter>>

\* a parser starts from the state a token carries
TakeTokenState ==
    /\ pc = "ws"
    /\ wsCall = NoCall
    /\ \E t \in {Call("tokenize", <<input>>)} :
          /\ t.err = ""
          /\ \E i \in 1..Len(t.tokens) :
                \E st \in {t.tokens[i].whitespace_before, t.tokens[i].whitespace_after} :
                    WsStep("token", None, Ok(st, None))

CallParseNewline ==
    /\ pc = "ws"
    /\ WsStep("parse_newline", None, Call("parse_newline", <<NewConfig(input), wsState>>))

CallParseEmptyLines ==
    /\ pc = "ws"
    /\ \E override \in WsOverrides :
          WsStep("parse_empty_lines", override,
                 Call("parse_empty_lines", <<NewConfig(input), wsState, override>>))

CallParseEmptyLine ==
    /\ pc = "ws"
    /\ \E override \in WsOverrides :
          WsStep("parse_empty_line", override,
                 Call("parse_empty_line", <<NewConfig(input), wsState, override>>))

CallParseTrailingWhitespace ==
    /\ pc = "ws"
    /\ WsStep("parse_trailing_whitespace", None,
              Call("parse_trailing_whitespace", <<NewConfig(input), wsState>>))

CallParseSimpleWhitespace ==
    /\ pc = "ws"
    /\ WsStep("parse_simple_whitespace", None,
              Call("parse_simple_whitespace", <<NewConfig(input), wsState>>))

CallParseComment ==
    /\ pc = "ws"
    /\ WsStep("parse_comment", None, Call("parse_comment", <<NewConfig(input), wsState>>))

NextWs ==
    \/ TakeTokenState
    \/ CallParseNewline
    \/ CallParseEmptyLines
    \/ CallParseEmptyLine
    \/ CallParseTrailingWhitespace
    \/ CallParseSimpleWhitespace
    \/ CallParseComment

SpecWs == InitWs /\ [][NextWs]_vars

----------------------------------------------------------------------------
(* The footer cut *)

\* parse_empty_lines was called with a block's indent as the override
FooterCall ==
    /\ wsCall.op = "parse_empty_lines"
    /\ wsCall.err = ""
    /\ wsCall.override # None
    /\ wsCall.override[1] # <<>>

\* the empty lines that lie ahead of the state the call started from
Scanned == _parse_all_empty_lines(NewConfig(input), wsPrev, wsCall.override, <<>>).val

\* the source indentation of a raw line strictly exceeds the indent
SourceIndent(raw) == Take(raw, RunIn(raw, {" ", "\t"}))
Exceeds(raw, ind) == StartsWith(raw, ind) /\ Len(SourceIndent(raw)) > Len(ind)

\* the last index in 1..n that satisfies the test, 0 when there is none
LastIndex(test, n) ==
    IF \E k \in 1..n : test[k] THEN CHOOSE k \in 1..n : test[k] /\ \A j \in (k + 1)..n : ~test[j]
    ELSE 0

DeeperAt(scanned, config, ind) ==
    [k \in 1..Len(scanned) |-> Exceeds(config.lines[LineNumberOf(scanned[k].st)], ind)]

AtOverride(scanned) == [k \in 1..Len(scanned) |-> scanned[k].el.indent]

----------------------------------------------------------------------------
(* Newlines *)

\* the call has returned a Fake newline
YieldsFake ==
    /\ wsCall.err = ""
    /\ \/ wsCall.op = "parse_newline" /\ wsCall.val # None /\ wsCall.val[1].fake
       \/ wsCall.op = "parse_empty_line" /\ wsCall.val # None /\ wsCall.val[1].newline.fake
       \/ wsCall.op = "parse_trailing_whitespace" /\ wsCall.val.newline.fake

\* C6: a Fake newline is returned only at the end of a text whose last byte is not
\* a newline character
C6_FakeNewlineRule ==
    YieldsFake =>
        /\ input # <<>>
        /\ input[Len(input)] \notin {"\n", "\r"}
        /\ wsState.byte_offset = Len(input)

\* C7: a Fake newline emits nothing, a Real one emits its value or the default
\* newline when it has none; parse_newline stores no value exactly when it has
\* matched the default newline; the bytes emitted are the bytes consumed
C7_NewlineEmission ==
    wsCall.op = "parse_newline" /\ wsCall.err = "" /\ wsCall.val # None =>
        LET config == NewConfig(input)
            nl == wsCall.val[1]
            state == [CodegenStateDefault EXCEPT !.tokens = <<"x">>,
                                                 !.default_newline = config.default_newline]
            after == Newline_codegen(nl, state)
            consumed == SubSeq(input, wsPrev.byte_offset + 1, wsState.byte_offset)
        IN /\ nl.fake => after.tokens = <<"x">>
           /\ ~nl.fake /\ nl.value = None => after.tokens = <<"x">> \o state.default_newline
           /\ ~nl.fake /\ nl.value # None => after.tokens = <<"x">> \o nl.value[1]
           /\ ~nl.fake => (nl.value = None <=> consumed = config.default_newline)
           /\ after.tokens = <<"x">> \o consumed

\* parse_newline has consumed a newline that is not the default newline
C7_Witness ==
    /\ wsCall.op = "parse_newline"
    /\ wsCall.err = ""
    /\ wsCall.val # None
    /\ ~wsCall.val[1].fake
    /\ wsCall.val[1].value # None
    /\ wsState.byte_offset > wsPrev.byte_offset

----------------------------------------------------------------------------
(* Code generation of constructed suites and statement lines *)

MaxBody == 2      \* statements of a constructed IndentedBlock
MaxFooter == 2    \* empty lines of a constructed footer

CgPass == [type |-> "Pass", semicolon |-> None]

CgPlainNewline == TrailingWhitespace(<<>>, None, Newline(None, FALSE))

CgHeaders ==
    { CgPlainNewline,
      TrailingWhitespace(<<" ">>, Some(<<"#">>), Newline(Some(<<"\r", "\n">>), FALSE)) }

CgIndents == {None, Some(<<" ", " ">>), Some(<<"\t">>)}

CgEmptyLines ==
    { EmptyLine(TRUE, <<>>, Some(<<"#">>), Newline(None, FALSE), Some(<<>>)),
      EmptyLine(FALSE, <<" ">>, None, Newline(None, FALSE), None) }

CgLine(body, leading_lines, trailing_whitespace) ==
    [type |-> "SimpleStatementLine", body |-> body, leading_lines |-> leading_lines,
     trailing_whitespace |-> trailing_whitespace]

CgSuite(body, trailing_whitespace) ==
    [type |-> "SimpleStatementSuite", body |-> body, leading_whitespace |-> <<" ">>,
     trailing_whitespace |-> trailing_whitespace]

CgBlock(body, header, ind, footer) ==
    [type |-> "IndentedBlock", body |-> body, header |-> header, indent |-> ind,
     footer |-> footer]

\* an if statement whose suite is an IndentedBlock with an empty body
CgIf ==
    [type |-> "If", leading_lines |-> <<>>, whitespace_before_test |-> <<" ">>,
     test |-> [type |-> "Integer", value |-> <<"1">>, lpar |-> <<>>, rpar |-> <<>>],
     whitespace_after_test |-> <<>>,
     body |-> CgBlock(<<>>, CgPlainNewline, Some(<<" ">>), <<>>),
     orelse |-> None, is_elif |-> FALSE]

CgStatements ==
    { CgLine(<<CgPass>>, <<>>, CgPlainNewline),
      CgLine(<<>>, <<EmptyLine(TRUE, <<>>, None, Newline(None, FALSE), Some(<<>>))>>,
             CgPlainNewline),
      CgIf }

CgSimpleBodies == {<<>>, <<CgPass>>, <<CgPass, CgPass>>}

CgSimpleWs(value) == [type |-> "SimpleWhitespace", value |-> value]

\* whitespace inside parentheses that goes on to an indented next line
CgParenWs ==
    [type |-> "ParenthesizedWhitespace", first_line |-> CgPlainNewline,
     empty_lines |-> <<>>, indent |-> TRUE, last_line |-> <<" ">>]

CgLeftParens ==
    { <<>>,
      <<[whitespace_after |-> CgSimpleWs(<<>>)]>>,
      <<[whitespace_after |-> CgSimpleWs(<<" ">>)], [whitespace_after |-> CgParenWs]>> }

CgRightParens ==
    { <<>>,
      <<[whitespace_before |-> CgSimpleWs(<<>>)]>>,
      <<[whitespace_before |-> CgParenWs], [whitespace_before |-> CgSimpleWs(<<" ">>)]>> }

CgInteger(lpar, rpar) == [type |-> "Integer", value |-> <<"1">>, lpar |-> lpar, rpar |-> rpar]

CgEllipsis(lpar, rpar) == [type |-> "Ellipsis", lpar |-> lpar, rpar |-> rpar]

CgName(lpar, rpar) == [type |-> "Name", value |-> <<"a">>, lpar |-> lpar, rpar |-> rpar]

CgBinaryOperation(left, right, lpar, rpar) ==
    [type |-> "BinaryOperation", left |-> left, operator |-> <<"+">>, right |-> right,
     lpar |-> lpar, rpar |-> rpar]

CgExpressionTypes == {"Integer", "Ellipsis", "Name", "BinaryOperation"}

CgExpressions ==
    UNION {{ CgInteger(lpar, rpar), CgEllipsis(lpar, rpar), CgName(lpar, rpar),
             CgBinaryOperation(CgInteger(lpar, rpar), CgInteger(<<>>, <<>>), lpar, rpar) } :
           lpar \in CgLeftParens, rpar \in CgRightParens}

CgNodes ==
    CgExpressions \cup
    {CgBlock(body, header, ind, footer) :
        body \in SeqsUpTo(CgStatements, MaxBody), header \in CgHeaders,
        ind \in CgIndents, footer \in SeqsUpTo(CgEmptyLines, MaxFooter)}
    \cup {CgSuite(body, tw) : body \in CgSimpleBodies, tw \in CgHeaders}
    \cup {CgLine(body, leading_lines, tw) :
            body \in CgSimpleBodies, leading_lines \in SeqsUpTo(CgEmptyLines, 1),
            tw \in CgHeaders}

CgStates ==
    {[CodegenStateDefault EXCEPT !.tokens = tokens, !.indent_tokens = indent_tokens,
                                 !.default_newline = default_newline] :
        tokens \in {<<>>, <<"x", "\n">>}, indent_tokens \in {<<>>, <<<<" ", " ", " ">>>>},
        default_newline \in {<<"\n">>, <<"\r", "\n">>}}

InitCg ==
    /\ input = <<>>
    /\ pc = "cg"
    /\ wsState = DefaultState
    /\ wsPrev = DefaultState
    /\ wsCall = NoCall
    /\ parsed = NoResult
    /\ output = CodegenStateDefault
    /\ cgNode \in CgNodes
    /\ cgBefore \in CgStates
    /\ cgAfter = cgBefore

CgStep(name) ==
    /\ cgAfter' = Call(name, <<cgNode, cgBefore>>)
    /\ pc' = "cgdone"
    /\ UNCHANGED <<input, wsState, wsPrev, wsCall, parsed, output, cgNode, cgBefore>>

CodegenIndentedBlock ==
    /\ pc = "cg"
    /\ cgNode.type = "IndentedBlock"
    /\ CgStep("IndentedBlock_codegen")

CodegenSimpleStatementSuite ==
    /\ pc = "cg"
    /\ cgNode.type = "SimpleStatementSuite"
    /\ CgStep("SimpleStatementSuite_codegen")

CodegenSimpleStatementLine ==
    /\ pc = "cg"
    /\ cgNode.type = "SimpleStatementLine"
    /\ CgStep("SimpleStatementLine_codegen")

CodegenExpression ==
    /\ pc = "cg"
    /\ cgNode.type \in CgExpressionTypes
    /\ CgStep("Expression_codegen")

NextCg ==
    \/ CodegenExpression
    \/ CodegenIndentedBlock
    \/ CodegenSimpleStatementSuite
    \/ CodegenSimpleStatementLine

SpecCg == InitCg /\ [][NextCg]_vars

----------------------------------------------------------------------------
(* The text of the nodes, written out field by field *)

NewlineText(nl, default_newline) ==
    IF nl.fake THEN <<>> ELSE IF nl.value # None THEN nl.value[1] ELSE default_newline

CommentText(comment) == IF comment # None THEN comment[1] ELSE <<>>

TrailingWhitespaceText(tw, default_newline) ==
    tw.whitespace \o CommentText(tw.comment) \o NewlineText(tw.newline, default_newline)

\* the text of the empty lines, the indented ones starting with the indentation
RECURSIVE EmptyLinesText(_, _, _)
EmptyLinesText(lines, indentation, default_newline) ==
    IF lines = <<>> THEN <<>>
    ELSE LET l == Head(lines)
         IN (IF l.indent THEN indentation ELSE <<>>)
            \o l.whitespace \o CommentText(l.comment)
            \o NewlineText(l.newline, default_newline)
            \o EmptyLinesText(Tail(lines), indentation, default_newline)

\* what the statements emit on their own when the indent stack is `stack`
StatementsText(body, stack) ==
    Statements_codegen(body, [cgBefore EXCEPT !.tokens = <<>>,
                                              !.indent_tokens = stack]).tokens

\* the codegen call of the kind has returned
Completed(type) == pc = "cgdone" /\ cgNode.type = type /\ ~cgAfter.panicked

\* C8: a completed IndentedBlock.codegen has appended the header, then the body
\* statements as they are emitted with the block's indent on the stack, then the
\* footer lines, those with indent = true at the block's own indentation; the indent
\* stack after the call is the stack before it
C8_IndentedBlockOrder ==
    Completed("IndentedBlock") /\ cgNode.body # <<>> =>
        LET inner == Append(cgBefore.indent_tokens, cgNode.indent[1])
        IN /\ cgAfter.tokens =
                cgBefore.tokens
                \o TrailingWhitespaceText(cgNode.header, cgBefore.default_newline)
                \o StatementsText(cgNode.body, inner)
                \o EmptyLinesText(cgNode.footer, Flatten(inner), cgBefore.default_newline)
           /\ cgAfter.indent_tokens = cgBefore.indent_tokens

\* a block inside an indented region, with statements and an indented footer line
C8_Witness ==
    /\ Completed("IndentedBlock")
    /\ cgNode.body # <<>>
    /\ cgBefore.indent_tokens # <<>>
    /\ \E i \in 1..Len(cgNode.footer) : cgNode.footer[i].indent

\* C9: an IndentedBlock with an empty body emits, between header and footer, one
\* line made of the current indentation, pass and the default newline; a
\* SimpleStatementSuite or SimpleStatementLine with an empty body emits pass before
\* its trailing whitespace
C9_EmptyBodiesEmitPass ==
    /\ Completed("IndentedBlock") /\ cgNode.body = <<>> =>
         LET inner == Append(cgBefore.indent_tokens, cgNode.indent[1])
         IN cgAfter.tokens =
                cgBefore.tokens
                \o TrailingWhitespaceText(cgNode.header, cgBefore.default_newline)
                \o Flatten(inner) \o S_pass \o cgBefore.default_newline
                \o EmptyLinesText(cgNode.footer, Flatten(inner), cgBefore.default_newline)
    /\ Completed("SimpleStatementSuite") /\ cgNode.body = <<>> =>
         cgAfter.tokens =
             cgBefore.tokens \o cgNode.leading_whitespace \o S_pass
             \o TrailingWhitespaceText(cgNode.trailing_whitespace, cgBefore.default_newline)
    /\ Completed("SimpleStatementLine") /\ cgNode.body = <<>> =>
         cgAfter.tokens =
             cgBefore.tokens
             \o EmptyLinesText(cgNode.leading_lines, Flatten(cgBefore.indent_tokens),
                               cgBefore.default_newline)
             \o Flatten(cgBefore.indent_tokens) \o S_pass
             \o TrailingWhitespaceText(cgNode.trailing_whitespace, cgBefore.default_newline)

\* an empty block inside an indented region
C9_Witness ==
    /\ Completed("IndentedBlock")
    /\ cgNode.body = <<>>
    /\ cgBefore.indent_tokens # <<>>

\* the text of the whitespace inside parentheses
ParenthesizableWhitespaceText(w, indentation, default_newline) ==
    IF w.type = "SimpleWhitespace" THEN w.value
    ELSE TrailingWhitespaceText(w.first_line, default_newline)
         \o EmptyLinesText(w.empty_lines, indentation, default_newline)
         \o (IF w.indent THEN indentation ELSE <<>>)
         \o w.last_line

\* each element of lpar, in order, as ( followed by its whitespace_after
RECURSIVE LeftParensText(_, _, _)
LeftParensText(lpar, indentation, default_newline) ==
    IF lpar = <<>> THEN <<>>
    ELSE <<"(">>
         \o ParenthesizableWhitespaceText(Head(lpar).whitespace_after, indentation,
                                          default_newline)
         \o LeftParensText(Tail(lpar), indentation, default_newline)

\* each element of rpar, in order, as its whitespace_before followed by )
RECURSIVE RightParensText(_, _, _)
RightParensText(rpar, indentation, default_newline) ==
    IF rpar = <<>> THEN <<>>
    ELSE ParenthesizableWhitespaceText(Head(rpar).whitespace_before, indentation,
                                       default_newline)
         \o <<")">>
         \o RightParensText(Tail(rpar), indentation, default_newline)

\* the text of an expression: its left parentheses, the expression inside them,
\* its right parentheses
RECURSIVE ExpressionText(_, _, _)
ExpressionText(e, indentation, default_newline) ==
    LeftParensText(e.lpar, indentation, default_newline)
    \o (CASE e.type = "Ellipsis" -> <<".", ".", ".">>
          [] e.type = "BinaryOperation" ->
                ExpressionText(e.left, indentation, default_newline)
                \o e.operator
                \o ExpressionText(e.right, indentation, default_newline)
          [] OTHER -> e.value)
    \o RightParensText(e.rpar, indentation, default_newline)

\* C11: for every Expression variant, codegen returns having appended each element
\* of lpar in order as ( followed by its whitespace_after, then the inner
\* expression, then each element of rpar in order as its whitespace_before followed
\* by )
C11_Parenthesization ==
    pc = "cgdone" /\ cgNode.type \in CgExpressionTypes =>
        /\ ~cgAfter.panicked
        /\ cgAfter.tokens =
               cgBefore.tokens
               \o ExpressionText(cgNode, Flatten(cgBefore.indent_tokens),
                                 cgBefore.default_newline)

----------------------------------------------------------------------------
(* The entry points of lib.rs on expression texts: the tokens 1, 2 and 3  *)
(* joined by binary operators, with prefix operators before the operands. *)

BinaryOperators ==
    { S_or, S_and, <<"|">>, <<"^">>, <<"&">>, <<"<", "<">>, <<">", ">">>, <<"+">>, <<"-">>,
      <<"*">>, <<"/">>, <<"/", "/">>, <<"%">>, <<"@">>, <<"*", "*">>, <<"=", "=">>,
      <<"!", "=">> }

PrefixOperators == { <<"-">>, <<"+">>, <<"~">>, S_not }

\* the prefix operator, when there is one, then the operand
Operand(prefix, value) == IF prefix = <<>> THEN value ELSE prefix \o <<" ">> \o value

PairText(p1, op, p2) == Operand(p1, <<"1">>) \o <<" ">> \o op \o <<" ">> \o Operand(p2, <<"2">>)

ChainText(p1, op1, op2) == PairText(p1, op1, <<>>) \o <<" ">> \o op2 \o <<" ">> \o <<"3">>

ExpressionTexts ==
    {ChainText(p1, op1, op2) :
        p1 \in PrefixOperators \cup {<<>>}, op1 \in BinaryOperators, op2 \in BinaryOperators}
    \cup {PairText(p1, op, p2) :
            p1 \in PrefixOperators \cup {<<>>}, op \in BinaryOperators, p2 \in {<<>>, <<"-">>}}
    \cup {Operand(p1, v) : p1 \in PrefixOperators \cup {<<>>},
                           v \in {<<"1">>, S_name, <<".", ".", ".">>}}
    \cup { <<>>, <<"1", "_">>, <<"1", " ", "$">> }

\* an if statement whose test is NAME := expression
Line_if_named == <<"i", "f", " ", "x", " ", ":", "=", " ", "1", ":", "\n">>

StatementTexts ==
    {e \o nl : e \in {PairText(<<>>, op, p2) : op \in BinaryOperators, p2 \in {<<>>, <<"-">>}}
                     \cup {<<>>, <<"1", "_">>, <<"1">>, S_pass, <<"p", "a", "s", "s", ";">>},
             nl \in {<<>>, <<"\n">>}}
    \cup { Line_if \o Indent4 \o Line_pass, Line_pass \o Line_pass,
           Line_if_named \o Indent4 \o Line_pass }

ModuleTexts ==
    { <<>>, <<"1", "_">>, <<"1", "_", "\n">>, <<BOM, "1", "_">>, <<BOM>>, Line_pass,
      <<BOM>> \o Line_pass, <<"1", " ", "$", "\n">>, Line_pass \o <<" ", "1", "\n">>,
      <<"1", " ", "+", "\n">>, <<"1", " ", "=", "=", " ", "2", "\n">>,
      Line_if_named \o Indent4 \o Line_pass }

\* the texts whose tokens, and whose whitespace, parse_tokens_without_whitespace is
\* given: the two arguments need not come from one text
TokenTexts ==
    { Line_pass, S_pass, <<"p", "a", "s", "s", " ", "1", "\n">>, <<"1", "\n">>,
      <<"p", "a", "s", "s", " ", "#", "\n">>,
      Line_if \o Indent4 \o Line_pass,
      Line_if \o <<" ", " ">> \o Line_pass,
      <<"i", "f", " ", "1", ":", " ", "p", "a", "s", "s", "\n">> }

TokenInputs ==
    {[tokens |-> tokenize(t).tokens, module_text |-> m] : t \in TokenTexts, m \in TokenTexts}

InitLib ==
    /\ \/ pc = "expression" /\ input \in ExpressionTexts
       \/ pc = "tokens" /\ input \in TokenInputs
       \/ pc = "statement" /\ input \in StatementTexts
       \/ pc = "start" /\ input \in ModuleTexts
    /\ wsState = DefaultState
    /\ wsPrev = DefaultState
    /\ wsCall = NoCall
    /\ parsed = NoResult
    /\ output = CodegenStateDefault
    /\ cgNode = NoNode
    /\ cgBefore = CodegenStateDefault
    /\ cgAfter = CodegenStateDefault

ParseStatement ==
    /\ pc = "statement"
    /\ parsed' = Call("parse_statement", <<input>>)
    /\ pc' = "statement_done"
    /\ UNCHANGED <<input, wsState, wsPrev, wsCall, output, cgNode, cgBefore, cgAfter>>

ParseExpression ==
    /\ pc = "expression"
    /\ parsed' = Call("parse_expression", <<input>>)
    /\ pc' = "expression_done"
    /\ UNCHANGED <<input, wsState, wsPrev, wsCall, output, cgNode, cgBefore, cgAfter>>

ParseTokensWithoutWhitespace ==
    /\ pc = "tokens"
    /\ parsed' = Call("parse_tokens_without_whitespace", <<input.tokens, input.module_text>>)
    /\ pc' = "tokens_done"
    /\ UNCHANGED <<input, wsState, wsPrev, wsCall, output, cgNode, cgBefore, cgAfter>>

NextLib ==
    \/ ParseModule
    \/ ParseStatement
    \/ ParseExpression
    \/ ParseTokensWithoutWhitespace

SpecLib == InitLib /\ [][NextLib]_vars

\* the operators of each left-associative level of the precedence table
LeftAssociativeLevels ==
    { {S_or}, {S_and}, {<<"|">>}, {<<"^">>}, {<<"&">>}, {<<"<", "<">>, <<">", ">">>},
      {<<"+">>, <<"-">>}, {<<"*">>, <<"/">>, <<"/", "/">>, <<"%">>, <<"@">>} }

Integer(value) == [type |-> "Integer", value |-> value, lpar |-> <<>>, rpar |-> <<>>]

BinaryOperation(left, operator, right) ==
    [type |-> "BinaryOperation", left |-> left, operator |-> operator, right |-> right,
     lpar |-> <<>>, rpar |-> <<>>]

UnaryOperation(operator, e) ==
    [type |-> "UnaryOperation", operator |-> operator, expression |-> e,
     lpar |-> <<>>, rpar |-> <<>>]

\* parse_expression has returned
ExpressionParsed == pc = "expression_done"

\* C12: a chain 1 op1 2 op2 3 of operators of one left-associative level, op1 = op2
\* or not, parses successfully and yields
\* BinaryOperation(BinaryOperation(1, op1, 2), op2, 3)
C12_LeftAssociativity ==
    ExpressionParsed =>
        \A level \in LeftAssociativeLevels : \A op1, op2 \in level :
            input = ChainText(<<>>, op1, op2) =>
                /\ parsed.err = ""
                /\ parsed.val =
                      BinaryOperation(
                          BinaryOperation(Integer(<<"1">>), op1, Integer(<<"2">>)),
                          op2, Integer(<<"3">>))

\* the level of an operator in the precedence table (lowest binds loosest)
OperatorLevel(operator) ==
    CASE operator = S_or -> 1
      [] operator = S_and -> 2
      [] operator \in {<<"=", "=">>, <<"!", "=">>} -> 4
      [] operator = <<"|">> -> 5
      [] operator = <<"^">> -> 6
      [] operator = <<"&">> -> 7
      [] operator \in {<<"<", "<">>, <<">", ">">>} -> 8
      [] operator \in {<<"+">>, <<"-">>} -> 9
      [] operator \in {<<"*">>, <<"/">>, <<"/", "/">>, <<"%">>, <<"@">>} -> 10
      [] operator = <<"*", "*">> -> 12

\* the level of the rule that produces the node
Level(e) ==
    CASE e.type = "BinaryOperation" -> OperatorLevel(e.operator)
      [] e.type = "UnaryOperation" -> IF e.operator = S_not THEN 3 ELSE 11
      [] e.type = "Comparison" -> 4
      [] OTHER -> 14

\* in the tree, every operand is at a level binding at least as tightly as the
\* operation it is an operand of
RECURSIVE OperandsBindTighter(_)
OperandsBindTighter(e) ==
    CASE e.type = "BinaryOperation" ->
            /\ Level(e.left) >= Level(e) /\ OperandsBindTighter(e.left)
            /\ Level(e.right) >= Level(e) /\ OperandsBindTighter(e.right)
      [] e.type = "UnaryOperation" ->
            Level(e.expression) >= Level(e) /\ OperandsBindTighter(e.expression)
      [] OTHER -> TRUE

One == Integer(<<"1">>)
Two == Integer(<<"2">>)
Three == Integer(<<"3">>)

\* C13: in every tree parse_expression returns, the operands of a binary or unary
\* operation are at a level binding at least as tightly as the operation;
\* 1 + 2 * 3 yields (1 + (2 * 3)) and 1 * 2 + 3 yields ((1 * 2) + 3); a prefix
\* - + ~ binds tighter than *; ** binds tighter than a prefix operator on its left
\* and is right-associative; not binds looser than every binary operator but and, or
C13_Precedence ==
    ExpressionParsed =>
        /\ parsed.err = "" => OperandsBindTighter(parsed.val)
        /\ input = ChainText(<<>>, <<"+">>, <<"*">>) =>
              parsed.val = BinaryOperation(One, <<"+">>, BinaryOperation(Two, <<"*">>, Three))
        /\ input = ChainText(<<>>, <<"*">>, <<"+">>) =>
              parsed.val = BinaryOperation(BinaryOperation(One, <<"*">>, Two), <<"+">>, Three)
        /\ \A p \in PrefixOperators \ {S_not} :
              /\ input = PairText(p, <<"*">>, <<>>) =>
                    parsed.val = BinaryOperation(UnaryOperation(p, One), <<"*">>, Two)
              /\ input = PairText(p, <<"*", "*">>, <<>>) =>
                    parsed.val = UnaryOperation(p, BinaryOperation(One, <<"*", "*">>, Two))
        /\ input = ChainText(<<>>, <<"*", "*">>, <<"*", "*">>) =>
              parsed.val =
                  BinaryOperation(One, <<"*", "*">>, BinaryOperation(Two, <<"*", "*">>, Three))
        /\ \A op \in BinaryOperators \ {S_or, S_and} :
              input = PairText(S_not, op, <<>>) =>
                  /\ parsed.err = ""
                  /\ parsed.val.type = "UnaryOperation"
                  /\ parsed.val.operator = S_not
                  /\ parsed.val.expression.type \in {"BinaryOperation", "Comparison"}
                  /\ parsed.val.expression.left = One
        /\ \A op \in {S_or, S_and} :
              input = PairText(S_not, op, <<>>) =>
                  parsed.val = BinaryOperation(UnaryOperation(S_not, One), op, Two)

Comparison(left, comparisons) ==
    [type |-> "Comparison", left |-> left, comparisons |-> comparisons,
     lpar |-> <<>>, rpar |-> <<>>]

ComparisonTarget(operator, comparator) == [operator |-> operator, comparator |-> comparator]

ComparisonOperators == { <<"=", "=">>, <<"!", "=">> }

\* C14: 1 op 2 and the chain 1 op1 2 op2 3, the operators being == or !=, parse
\* into one Comparison node whose head is the first operand and whose comparisons
\* hold one (operator, comparator) pair per operator, in source order
C14_ComparisonNode ==
    ExpressionParsed =>
        \A op1, op2 \in ComparisonOperators :
            /\ input = PairText(<<>>, op1, <<>>) =>
                  /\ parsed.err = ""
                  /\ parsed.val = Comparison(One, <<ComparisonTarget(op1, Two)>>)
            /\ input = ChainText(<<>>, op1, op2) =>
                  /\ parsed.err = ""
                  /\ parsed.val =
                        Comparison(One, <<ComparisonTarget(op1, Two),
                                          ComparisonTarget(op2, Three)>>)

WhitespaceErrors == {InternalError, TrailingWhitespaceError}

\* what make_simple_statement_line returns for the statement line the token vector
\* starts with, when it starts with one
FirstLine(tokens, module_text) ==
    LET s == simple_stmt(tokens, 0)
    IN IF s.m = "ok" THEN make_simple_statement_line(NewConfig(module_text), s.val)
       ELSE NoResult

\* C15: when a whitespace-parser call inside a node constructor returns a
\* WhitespaceError (here: inside make_simple_statement_line, called for the first
\* statement line), the whole parse fails and reports that WhitespaceError
C15_WhitespaceErrorsFatal ==
    pc = "tokens_done" =>
        LET line == FirstLine(input.tokens, input.module_text)
        IN line.err \in WhitespaceErrors => parsed.err = line.err

----------------------------------------------------------------------------
(* parse_module and codegen on function definitions with decorators *)

MaxDecorators == 2    \* decorator lines before a def

\* empty and comment-only lines before a decorator or before def
DefGaps == SeqsUpTo({<<"\n">>, <<"#", "\n">>}, 1)

\* what follows the name on a decorator line, before the newline
DecoratorRests == { <<>>, <<" ", "#", " ", "c">> }

\* a decorator line with the lines before it
DecoratorItems == [gap : DefGaps, rest : DecoratorRests]

DefLines ==
    { <<"d", "e", "f", " ", "f", "(", ")", ":", " ", ".", ".", ".", "\n">>,
      <<"d", "e", "f", " ", "f", "(", ")", ":", "\n">> \o Indent4 \o Line_pass }

DecoratorText(item) == Flatten(item.gap) \o <<"@", "a">> \o item.rest \o <<"\n">>

RECURSIVE DecoratorsText(_)
DecoratorsText(items) ==
    IF items = <<>> THEN <<>> ELSE DecoratorText(Head(items)) \o DecoratorsText(Tail(items))

\* the decorators, the lines between the last one and def, the definition
DefText(items, gap, def) == DecoratorsText(items) \o Flatten(gap) \o def

DefTexts ==
    {DefText(items, gap, def) :
        items \in SeqsUpTo(DecoratorItems, MaxDecorators), gap \in DefGaps, def \in DefLines}

InitDef ==
    /\ input \in DefTexts
    /\ pc = "start"
    /\ wsState = DefaultState
    /\ wsPrev = DefaultState
    /\ wsCall = NoCall
    /\ parsed = NoResult
    /\ output = CodegenStateDefault
    /\ cgNode = NoNode
    /\ cgBefore = CodegenStateDefault
    /\ cgAfter = CodegenStateDefault

SpecDef == InitDef /\ [][Next]_vars

\* the decorators as rule decorators returned them, and the definition as rule
\* function_def_raw returned it, recovered from the decorated definition f
DecoratorsOf(f) ==
    IF f.decorators = <<>> THEN <<>>
    ELSE <<[Head(f.decorators) EXCEPT !.leading_lines = f.leading_lines]>>
         \o Tail(f.decorators)

Undecorated(f) ==
    IF f.decorators = <<>> THEN f
    ELSE [f EXCEPT !.decorators = <<>>, !.leading_lines = f.lines_after_decorators,
                   !.lines_after_decorators = <<>>]

\* the lines before the first decorator are the definition's leading_lines and
\* the first decorator has none; the lines between the last decorator and def are
\* lines_after_decorators
DecoratorLinesAttributed(f, items, gap) ==
    /\ Len(f.decorators) = Len(items)
    /\ items # <<>> =>
          /\ EmptyLinesText(f.leading_lines, <<>>, <<"\n">>) = Flatten(items[1].gap)
          /\ f.decorators[1].leading_lines = <<>>
          /\ EmptyLinesText(f.lines_after_decorators, <<>>, <<"\n">>) = Flatten(gap)

\* the trailing_whitespace of each decorator is the rest of the decorator's line
DecoratorTrailingWhitespace(f, items) ==
    \A i \in 1..Len(items) :
        i <= Len(f.decorators) =>
            TrailingWhitespaceText(f.decorators[i].trailing_whitespace, <<"\n">>)
                = items[i].rest \o <<"\n">>

\* the output of f.with_decorators(d) is the output of the decorators followed by
\* the output of the undecorated f
DecoratedOutput(f) ==
    LET d == DecoratorsOf(f)
        raw == Undecorated(f)
        s == CodegenStateDefault
    IN /\ (d # <<>> => with_decorators(raw, d) = f)
       /\ FunctionDef_codegen(f, s).tokens =
             Decorators_codegen(d, s).tokens \o FunctionDef_codegen(raw, s).tokens

\* C16: in the parsed definition the lines before the first decorator are its
\* leading_lines, the lines between the last decorator and def are its
\* lines_after_decorators, the trailing_whitespace of a decorator holds the rest of
\* the decorator's own line, and the output of the decorated definition is the
\* output of the decorators followed by the output of the undecorated definition
C16_DecoratorLines ==
    pc = "parsed" =>
        \A items \in SeqsUpTo(DecoratorItems, MaxDecorators), gap \in DefGaps, def \in DefLines :
            input = DefText(items, gap, def) =>
                /\ parsed.val.body[1].type = "FunctionDef"
                /\ DecoratorLinesAttributed(parsed.val.body[1], items, gap)
                /\ DecoratorTrailingWhitespace(parsed.val.body[1], items)
                /\ DecoratedOutput(parsed.val.body[1])

----------------------------------------------------------------------------
(* bol_offset on short texts *)

MaxTextLen == 4    \* bytes of a text given to bol_offset
MaxLineArg == 5    \* largest line number asked for

BolTexts == SeqsUpTo({"a", "\n", "\r"}, MaxTextLen)

InitBol ==
    /\ input \in BolTexts
    /\ pc = "bol"
    /\ wsState = DefaultState
    /\ wsPrev = DefaultState
    /\ wsCall = NoCall
    /\ parsed = NoResult
    /\ output = CodegenStateDefault
    /\ cgNode = NoNode
    /\ cgBefore = CodegenStateDefault
    /\ cgAfter = CodegenStateDefault

BolOffset ==
    /\ pc = "bol"
    /\ \E n \in -1..MaxLineArg : parsed' = [n |-> n, offset |-> bol_offset(input, n)]
    /\ pc' = "bol_done"
    /\ UNCHANGED <<input, wsState, wsPrev, wsCall, output, cgNode, cgBefore, cgAfter>>

NextBol == BolOffset

SpecBol == InitBol /\ [][NextBol]_vars

RECURSIVE SumLen(_, _)
SumLen(lines, k) == IF k = 0 THEN 0 ELSE Len(lines[k]) + SumLen(lines, k - 1)

\* the byte offset just after the (n-1)-th line break of the text, a line break
\* being \n, \r\n or \r; the length of the text when it has fewer line breaks
StartOfLine(text, n) ==
    LET lines == SplitLines(text)
    IN IF n <= 1 THEN 0
       ELSE IF n - 1 <= Len(lines) THEN SumLen(lines, n - 1)
       ELSE Len(text)

\* C17: bol_offset(text, n) is 0 for n <= 1; for n >= 2 it is the offset just after
\* the (n-1)-th line break, or len(text) when the text has fewer line breaks; it is
\* in 0..len(text), non-decreasing in n, and the start of line n for each of the
\* line endings \n, \r\n and \r
C17_BolOffset ==
    pc = "bol_done" =>
        /\ parsed.n <= 1 => parsed.offset = 0
        /\ parsed.offset \in 0..Len(input)
        /\ parsed.offset <= bol_offset(input, parsed.n + 1)
        /\ parsed.offset = StartOfLine(input, parsed.n)

----------------------------------------------------------------------------
(* tokenizer errors at the entry points of lib.rs *)

\* the entry point that was called, and the text its tokenizer was given
EntryDone == pc \in {"parsed", "failed", "statement_done", "expression_done"}
EntryText == IF pc \in {"parsed", "failed"} THEN StripBOM(input) ELSE input
EntryStages ==
    IF pc \in {"parsed", "failed"} THEN <<"strip_prefix", "tokenize", "file", "parse_whitespace">>
    ELSE IF pc = "statement_done" THEN <<"tokenize", "statement", "parse_whitespace">>
    ELSE <<"tokenize", "expression", "parse_whitespace">>

\* C18: when tokenize fails on the text, parse_module, parse_statement and
\* parse_expression return the tokenizer's error wrapped as TokenizerError
\* (BadDecimal for 1_) and no tree, and run neither the grammar nor
\* parse_whitespace; the stages run in the order strip of the BOM, tokenize,
\* grammar, parse_whitespace, each one only when the one before succeeded
C18_TokenizerErrorsFatal ==
    EntryDone =>
        LET tokens == tokenize(EntryText)
            n == Len(EntryStages)
        IN /\ tokens.err # "" =>
                 /\ parsed.err = "TokenizerError"
                 /\ parsed.cause = Some(tokens.err)
                 /\ parsed.val = None
                 /\ parsed.stages = Take(EntryStages, n - 2)
           /\ EntryText \in {<<"1", "_">>, <<"1", "_", "\n">>} => parsed.cause = Some("BadDecimal")
           /\ StartsWith(EntryStages, parsed.stages)
           /\ tokens.err = "" <=> Len(parsed.stages) >= n - 1
           /\ parsed.err = "" <=> Len(parsed.stages) = n
           /\ parsed.err \notin {"", "TokenizerError"} => Len(parsed.stages) = n - 1

C18_Witness ==
    /\ pc = "failed"
    /\ input = <<BOM, "1", "_">>
    /\ parsed.err = "TokenizerError"
    /\ parsed.cause = Some("BadDecimal")
    /\ parsed.stages = <<"strip_prefix", "tokenize">>

----------------------------------------------------------------------------
(* position_repr on the token vectors the entry points hand to the grammar *)

MaxFailurePos == 4    \* largest failure position asked for

StreamTexts == { <<>>, <<"1">>, <<"1", "\n">>, S_pass, Line_pass, <<"1", " ", "+">>,
                 <<"1", " ", "+", "\n">>, <<"\n">>, <<"#">>, <<" ">>,
                 Line_pass \o Line_pass, Line_if \o Indent4 \o Line_pass }

\* the vector an entry point hands to its rule for a text
GrammarStream(entry, text) ==
    LET tokens == tokenize(text).tokens
    IN IF entry = "parse_module" THEN tokens
       ELSE IF entry = "parse_statement" THEN PopToken(tokens)
       ELSE PopToken(PopToken(tokens))

StreamInputs ==
    {[entry |-> e, tokens |-> GrammarStream(e, t)] :
        e \in {"parse_module", "parse_statement", "parse_expression"}, t \in StreamTexts}

InitPos ==
    /\ \/ pc = "position" /\ input \in StreamInputs
       \/ pc = "expression" /\ input \in StreamTexts
       \/ pc = "statement" /\ input \in StreamTexts
    /\ wsState = DefaultState
    /\ wsPrev = DefaultState
    /\ wsCall = NoCall
    /\ parsed = NoResult
    /\ output = CodegenStateDefault
    /\ cgNode = NoNode
    /\ cgBefore = CodegenStateDefault
    /\ cgAfter = CodegenStateDefault

PositionRepr ==
    /\ pc = "position"
    /\ \E pos \in 0..MaxFailurePos :
          parsed' = [pos |-> pos, repr |-> position_repr(input.tokens, pos)]
    /\ pc' = "position_done"
    /\ UNCHANGED <<input, wsState, wsPrev, wsCall, output, cgNode, cgBefore, cgAfter>>

NextPos ==
    \/ PositionRepr
    \/ ParseStatement
    \/ ParseExpression

SpecPos == InitPos /\ [][NextPos]_vars

\* the positions of the token a location is built from
TokenSpan(token) == [start_pos |-> token.start_pos, end_pos |-> token.end_pos]

\* C19: for every token vector handed to the grammar and every failure position,
\* the location of the error is built from start_pos and end_pos of the token at
\* that position, or of the last token when the position is at or past the end;
\* there is a location for every vector, the one parse_statement and
\* parse_expression are left with after dropping the trailing tokens included
C19_ErrorLocation ==
    /\ pc = "position_done" =>
          /\ ~parsed.repr.panicked
          /\ parsed.repr.loc # None
          /\ parsed.pos < Len(input.tokens) =>
                parsed.repr.loc = Some(TokenSpan(input.tokens[parsed.pos + 1]))
          /\ parsed.pos >= Len(input.tokens) /\ input.tokens # <<>> =>
                parsed.repr.loc = Some(TokenSpan(input.tokens[Len(input.tokens)]))
    /\ pc \in {"statement_done", "expression_done"}
          /\ GrammarStream(IF pc = "statement_done" THEN "parse_statement"
                           ELSE "parse_expression", input) = <<>>
          => parsed.err # Panic

----------------------------------------------------------------------------
(* IndentedBlock.codegen on a block with no indent of its own *)

\* C20: codegen of an IndentedBlock whose indent is None completes, and emits the
\* header, the body and the footer lines as the block with the default indent of
\* the state as its indent does, i.e. at the enclosing indentation plus the
\* default indent
C20_DefaultIndentation ==
    pc = "cgdone" /\ cgNode.type = "IndentedBlock" /\ cgNode.indent = None =>
        /\ ~cgAfter.panicked
        /\ cgAfter = IndentedBlock_codegen([cgNode EXCEPT !.indent = Some(cgBefore.default_indent)],
                                           cgBefore)

----------------------------------------------------------------------------
(* The whitespace parsers on texts with continuation lines, from every      *)
(* position of the text, inside and outside parentheses                     *)

MaxScanLines == 2    \* physical lines of a text

ScanLines ==
    { <<"\n">>, <<" ", "\n">>, <<"\\", "\n">>, <<" ", "\\", "\n">>, <<"#", "\n">>,
      <<"x", "\n">> }

\* whole lines, the last one with or without its last byte
ScanTexts ==
    LET whole == {Flatten(q) : q \in SeqsUpTo(ScanLines, MaxScanLines)}
    IN whole \cup {Take(t, Len(t) - 1) : t \in whole \ {<<>>}}

\* the bytes of the lines before line ln
RECURSIVE OffsetOfLine(_, _)
OffsetOfLine(lines, ln) ==
    IF ln <= 1 THEN 0 ELSE Len(lines[ln - 1]) + OffsetOfLine(lines, ln - 1)

\* the state denotes a position of the text
ValidPosition(config, st) ==
    /\ st.line >= 1 /\ st.line <= Len(config.lines)
    /\ st.column_byte <= Len(config.lines[st.line])
    /\ st.byte_offset = OffsetOfLine(config.lines, st.line) + st.column_byte

\* the states a parser is started from: the default state, and every position
ScanStates(text) ==
    LET lines == SplitLines(text)
    IN {[DefaultState EXCEPT !.is_parenthesized = p] : p \in BOOLEAN}
       \cup UNION {{[line |-> ln, column |-> col, column_byte |-> col,
                      absolute_indent |-> <<>>, is_parenthesized |-> p,
                      byte_offset |-> OffsetOfLine(lines, ln) + col] :
                         col \in 0..Len(lines[ln]), p \in BOOLEAN} : ln \in 1..Len(lines)}

InitScan ==
    /\ input \in ScanTexts
    /\ pc = "ws"
    /\ wsState \in ScanStates(input)
    /\ wsPrev = wsState
    /\ wsCall = NoCall
    /\ parsed = NoResult
    /\ output = CodegenStateDefault
    /\ cgNode = NoNode
    /\ cgBefore = CodegenStateDefault
    /\ cgAfter = CodegenStateDefault

CallParseParenthesizableWhitespace ==
    /\ pc = "ws"
    /\ WsStep("parse_parenthesizable_whitespace", None,
              Call("parse_parenthesizable_whitespace", <<NewConfig(input), wsState>>))

CallParseParenthesizedWhitespace ==
    /\ pc = "ws"
    /\ WsStep("parse_parenthesized_whitespace", None,
              Call("parse_parenthesized_whitespace", <<NewConfig(input), wsState>>))

CallParseOptionalTrailingWhitespace ==
    /\ pc = "ws"
    /\ WsStep("parse_optional_trailing_whitespace", None,
              Call("parse_optional_trailing_whitespace", <<NewConfig(input), wsState>>))

CallParseAllEmptyLines ==
    /\ pc = "ws"
    /\ WsStep("parse_all_empty_lines", None,
              Call("parse_all_empty_lines", <<NewConfig(input), wsState>>))

CallParseEmptyLinesFromEnd ==
    /\ pc = "ws"
    /\ WsStep("parse_empty_lines_from_end", None,
              Call("parse_empty_lines_from_end", <<NewConfig(input), wsState>>))

NextScan ==
    \/ CallParseSimpleWhitespace
    \/ CallParseParenthesizableWhitespace
    \/ CallParseParenthesizedWhitespace
    \/ CallParseEmptyLine
    \/ CallParseEmptyLines
    \/ CallParseAllEmptyLines
    \/ CallParseEmptyLinesFromEnd
    \/ CallParseOptionalTrailingWhitespace
    \/ CallParseTrailingWhitespace
    \/ CallParseNewline
    \/ CallParseComment

SpecScan == InitScan /\ [][NextScan]_vars

\* the bytes between the state before the call and the state after it
Consumed == SubSeq(input, wsPrev.byte_offset + 1, wsState.byte_offset)

\* s is made of spaces, tabs, form feeds and continuations only
RECURSIVE OnlySimpleWhitespace(_)
OnlySimpleWhitespace(s) ==
    IF s = <<>> THEN TRUE
    ELSE IF s[1] \in {" ", "\t", "\f"} THEN OnlySimpleWhitespace(Drop(s, 1))
    ELSE IF s[1] = "\\" /\ NEWLINE_RE(Drop(s, 1)) > 0
    THEN OnlySimpleWhitespace(Drop(s, 1 + NEWLINE_RE(Drop(s, 1))))
    ELSE FALSE

Returned_(op) == wsCall.op = op /\ wsCall.err = ""

\* C21: a successful parse_simple_whitespace has consumed spaces, tabs, form feeds
\* and backslash-newline continuations only, so it has passed no newline without
\* a backslash before it and no other byte; after a continuation it has gone on
\* matching on the next line; the SimpleWhitespace returned is the slice of the
\* input between the byte_offset before the call and the byte_offset after it
C21_SimpleWhitespace ==
    Returned_("parse_simple_whitespace") /\ ValidPosition(NewConfig(input), wsPrev) =>
        /\ wsPrev.byte_offset <= wsState.byte_offset
        /\ wsCall.val = Consumed
        /\ OnlySimpleWhitespace(Consumed)
        /\ wsPrev.column_byte < Len(SplitLines(input)[wsPrev.line]) =>
              wsState.byte_offset - wsPrev.byte_offset
                = SIMPLE_WHITESPACE_RE(Drop(input, wsPrev.byte_offset))
        /\ wsState.line = wsPrev.line + CountOf(Consumed, "\\")

\* over a continuation, with whitespace on both lines
C21_Witness ==
    /\ Returned_("parse_simple_whitespace")
    /\ ValidPosition(NewConfig(input), wsPrev)
    /\ input = <<" ", "\\", "\n", " ", "\n">>
    /\ wsPrev.byte_offset = 0
    /\ wsCall.val = <<" ", "\\", "\n", " ">>
    /\ wsState.line = 2

\* the parsers whose result is an Option, None being no match
OptionParsers ==
    {"parse_parenthesized_whitespace", "parse_empty_line",
     "parse_optional_trailing_whitespace", "parse_newline", "parse_comment"}

SpeculativeParsers ==
    OptionParsers \cup {"parse_simple_whitespace", "parse_parenthesizable_whitespace",
                        "parse_empty_lines", "parse_trailing_whitespace"}

\* the call has returned an error
ReturnedError == wsCall.err \notin {"", Panic, Diverges}

\* C22: when a call of a whitespace parser returns an error, or reports no match,
\* the scan state of the caller is the state before the call
C22_SpeculationNeverLeaks ==
    /\ wsCall.op \in SpeculativeParsers /\ ReturnedError => wsState = wsPrev
    /\ wsCall.op \in OptionParsers /\ wsCall.err = "" /\ wsCall.val = None => wsState = wsPrev

----------------------------------------------------------------------------
(* the order of the calls of the whitespace parsers during parse_module *)

NonDecreasing(s) == \A i \in 1..Len(s) : \A j \in i..Len(s) : s[i] <= s[j]

\* C23: during one parse the whitespace fields are inflated in an order in which
\* the byte offsets the whitespace parsers start from never decrease (for an
\* indented block: header, then body statements, then footer; for a compound
\* statement: its leading lines, then its block)
C23_InflationOrder ==
    pc = "parsed" => NonDecreasing(parsed.val.inflated)

----------------------------------------------------------------------------
(* parse_empty_lines with an override *)

\* parse_empty_lines was called with an override and has returned
OverrideCall ==
    /\ wsCall.op = "parse_empty_lines"
    /\ wsCall.err = ""
    /\ wsCall.override # None

\* C24: after parse_empty_lines with override Some(i) the state is just after the
\* last scanned empty line that starts with i (indent = true), and is the state
\* before the call when there is none; the lines after it are neither returned
\* nor consumed; the list returned is every scanned line up to and including
\* that line
C24_OverrideFrame ==
    OverrideCall =>
        LET scanned == Scanned
            cut == LastIndex(AtOverride(scanned), Len(scanned))
        IN /\ wsState = IF cut = 0 THEN wsPrev ELSE scanned[cut].st
           /\ wsCall.val = LinesOf(Take(scanned, cut))

----------------------------------------------------------------------------
(* parse_parenthesizable_whitespace *)

\* a trailing whitespace with its newline can be parsed from the state
TrailingWhitespaceAhead(config, st) ==
    LET r == parse_optional_trailing_whitespace(config, st)
    IN r.err = "" /\ r.val # None

\* C25: parse_parenthesizable_whitespace returns a ParenthesizedWhitespace only
\* when is_parenthesized is true and a trailing whitespace with its newline can be
\* parsed at the position; in every other case it returns what
\* parse_simple_whitespace returns from the same state; with is_parenthesized
\* false the state does not move past a newline that has no backslash before it
C25_Parenthesizable ==
    wsCall.op = "parse_parenthesizable_whitespace" =>
        LET config == NewConfig(input)
            simple == parse_simple_whitespace(config, wsPrev)
            ahead == wsPrev.is_parenthesized /\ TrailingWhitespaceAhead(config, wsPrev)
        IN /\ wsCall.err = "" /\ wsCall.val.type = "ParenthesizedWhitespace" => ahead
           /\ ~ahead =>
                 /\ wsCall.err = simple.err
                 /\ wsCall.err = "" =>
                       /\ wsCall.val = [type |-> "SimpleWhitespace", value |-> simple.val]
                       /\ wsState = simple.st
           /\ ~wsPrev.is_parenthesized /\ wsCall.err = ""
              /\ ValidPosition(config, wsPrev) => OnlySimpleWhitespace(Consumed)

\* inside parentheses, over a line break and the indentation of the next line
C25_Witness ==
    /\ wsCall.op = "parse_parenthesizable_whitespace"
    /\ wsCall.err = ""
    /\ wsPrev.is_parenthesized
    /\ wsCall.val.type = "ParenthesizedWhitespace"
    /\ input = <<" ", "\n", "x", "\n">>
    /\ wsPrev.byte_offset = 0
    /\ wsCall.val.first_line.whitespace = <<" ">>
    /\ wsState.line = 2

\* the state is not at the end of a line that another line follows
InsideLine(config, st) ==
    \/ st.column_byte < Len(config.lines[st.line])
    \/ st.line = Len(config.lines)

\* after simple whitespace and a comment matched on the rest of the input, a
\* newline follows: a real one, or the fake one at the end of the text
NewlineFollows(config, st) ==
    LET rest == Drop(config.input, st.byte_offset)
        ws == SIMPLE_WHITESPACE_RE(rest)
        cm == COMMENT_RE(Drop(rest, ws))
        after == Drop(rest, ws + cm)
    IN \/ NEWLINE_RE(after) > 0
       \/ after = <<>> /\ (ws + cm > 0 \/ st.column_byte # 0)

\* the bytes of the input that a matched newline stands for
MatchedNewline(config, nl) ==
    IF nl.fake THEN <<>> ELSE IF nl.value = None THEN config.default_newline ELSE nl.value[1]

\* C26: parse_trailing_whitespace succeeds exactly when, after optional simple
\* whitespace and an optional comment, a real newline or the fake one at the end of
\* the text follows; otherwise it fails with TrailingWhitespaceError and the state
\* is unchanged; on success the state is just after the newline and the parts of
\* the result concatenate to the bytes consumed
C26_TrailingWhitespace ==
    wsCall.op = "parse_trailing_whitespace"
    /\ ValidPosition(NewConfig(input), wsPrev) /\ InsideLine(NewConfig(input), wsPrev) =>
        LET config == NewConfig(input)
        IN IF NewlineFollows(config, wsPrev)
           THEN /\ wsCall.err = ""
                /\ Consumed = wsCall.val.whitespace
                                 \o (IF wsCall.val.comment = None THEN <<>>
                                     ELSE wsCall.val.comment[1])
                                 \o MatchedNewline(config, wsCall.val.newline)
                /\ \/ wsState.column_byte = 0
                   \/ wsState.byte_offset = Len(input)
           ELSE /\ wsCall.err = TrailingWhitespaceError
                /\ wsState = wsPrev

\* the parsers that loop over empty lines
EmptyLineLoops ==
    {"parse_empty_lines", "parse_all_empty_lines", "parse_empty_lines_from_end",
     "parse_parenthesized_whitespace"}

\* C27: from every state, a state at the end of the text that is not at column 0
\* included, parse_empty_lines, parse_all_empty_lines, parse_empty_lines_from_end
\* and parse_parenthesized_whitespace end after finitely many iterations
C27_EmptyLineLoopsTerminate ==
    wsCall.op \in EmptyLineLoops => wsCall.err # Diverges

\* C28: for every token stream the grammar returns a complete tree or a
\* ParserError; no rule and no node constructor aborts the process, in particular
\* on an expression with == or != and on an if or elif test NAME := expression
C28_ParsingIsTotal ==
    EntryDone => /\ parsed.err # Panic
                 /\ parsed.err \in {"", "ParserError", "TokenizerError"}

\* C29: from a state that denotes a valid position (1 <= line <= number of lines,
\* column_byte <= length of the line, byte_offset = length of the lines before +
\* column_byte), a whitespace-parser call that returns successfully leaves a state
\* that denotes a valid position, with a byte_offset that is not smaller; so does
\* every sequence of such calls
C29_ScanStateConsistent ==
    wsCall.op # "none" /\ wsCall.err = "" /\ ValidPosition(NewConfig(input), wsPrev) =>
        /\ ValidPosition(NewConfig(input), wsState)
        /\ wsState.byte_offset >= wsPrev.byte_offset

\* the second of two calls: a newline after a comment, onto the next line
C29_Witness ==
    /\ Returned_("parse_newline")
    /\ input = <<"#", "\n", " ", "\n">>
    /\ ValidPosition(NewConfig(input), wsPrev)
    /\ wsPrev.byte_offset = 1
    /\ wsState.line = 2
    /\ wsState.column_byte = 0
    /\ wsState.byte_offset = 2

----------------------------------------------------------------------------
(* Parameters::codegen on Parameters values of every shape *)

MaxParams == 2    \* regular parameters, and keyword-only parameters

NoWhitespace == [type |-> "SimpleWhitespace", value |-> <<>>]

\* a comma of the source, without whitespace around it: it prints as "," where the
\* default comma prints as ", "
CgComma == [whitespace_before |-> NoWhitespace, whitespace_after |-> NoWhitespace]

CgCommas == {None, Some(CgComma)}

CgParam(name, default, comma) ==
    [name |-> [type |-> "Name", value |-> name, lpar |-> <<>>, rpar |-> <<>>],
     equal |-> None, default |-> default, comma |-> comma, star |-> None,
     whitespace_after_star |-> NoWhitespace, whitespace_after_param |-> NoWhitespace]

CgParamsNamed(name) == {CgParam(name, None, comma) : comma \in CgCommas}

CgParameters ==
    {[posonly_params |-> posonly_params, posonly_ind |-> posonly_ind, params |-> params,
      star_arg |-> star_arg, kwonly_params |-> kwonly_params, star_kwarg |-> star_kwarg] :
        posonly_params \in SeqsUpTo(CgParamsNamed(<<"a">>), 1),
        posonly_ind \in {None} \cup {Some([comma |-> comma]) : comma \in CgCommas},
        params \in SeqsUpTo(CgParamsNamed(<<"b">>)
                               \cup {CgParam(<<"b">>, Some(CgInteger(<<>>, <<>>)), None)},
                            MaxParams),
        star_arg \in {None, Some([type |-> "Star", value |-> [comma |-> CgComma]])}
                        \cup {Some([type |-> "Param", value |-> p]) : p \in CgParamsNamed(<<"c">>)},
        kwonly_params \in SeqsUpTo(CgParamsNamed(<<"d">>), MaxParams),
        star_kwarg \in {None} \cup {Some(p) : p \in CgParamsNamed(<<"e">>)}}

InitParams ==
    /\ input = <<>>
    /\ pc = "params"
    /\ wsState = DefaultState
    /\ wsPrev = DefaultState
    /\ wsCall = NoCall
    /\ parsed = NoResult
    /\ output = CodegenStateDefault
    /\ cgNode \in CgParameters
    /\ cgBefore = CodegenStateDefault
    /\ cgAfter = cgBefore

CodegenParameters ==
    /\ pc = "params"
    /\ cgAfter' = Call("Parameters_codegen", <<cgNode, cgBefore>>)
    /\ pc' = "params_done"
    /\ UNCHANGED <<input, wsState, wsPrev, wsCall, parsed, output, cgNode, cgBefore>>

NextParams == CodegenParameters

SpecParams == InitParams /\ [][NextParams]_vars

\* what a parameter prints apart from its comma
ElementOfParam(p, default_star) ==
    [text |-> Param_codegen([p EXCEPT !.comma = None], CodegenStateDefault,
                            default_star, FALSE).tokens,
     comma |-> p.comma]

RECURSIVE ElementsOfParams(_)
ElementsOfParams(ps) ==
    IF ps = <<>> THEN <<>>
    ELSE <<ElementOfParam(Head(ps), None)>> \o ElementsOfParams(Tail(ps))

\* the elements that Parameters::codegen emits, in order, each with its own comma
EmittedElements(self) ==
    ElementsOfParams(self.posonly_params)
    \o (IF self.posonly_ind # None
        THEN <<[text |-> <<"/">>, comma |-> self.posonly_ind[1].comma]>>
        ELSE IF self.posonly_params # <<>> THEN <<[text |-> <<"/">>, comma |-> None]>>
        ELSE <<>>)
    \o ElementsOfParams(self.params)
    \o (IF self.star_arg = None
        THEN IF self.kwonly_params # <<>> THEN <<[text |-> <<"*">>, comma |-> None]>> ELSE <<>>
        ELSE IF self.star_arg[1].type = "Param"
        THEN <<ElementOfParam(self.star_arg[1].value, Some(<<"*">>))>>
        ELSE <<[text |-> <<"*">>, comma |-> Some(self.star_arg[1].value.comma)]>>)
    \o ElementsOfParams(self.kwonly_params)
    \o (IF self.star_kwarg # None
        THEN <<ElementOfParam(self.star_kwarg[1], Some(<<"*", "*">>))>>
        ELSE <<>>)

\* the elements separated by commas: each element's own comma when it has one,
\* the default comma otherwise, and no default comma after the last element
RECURSIVE CommaSeparated(_)
CommaSeparated(es) ==
    IF es = <<>> THEN <<>>
    ELSE Head(es).text
         \o (IF Head(es).comma # None
             THEN Comma_codegen(Head(es).comma[1], CodegenStateDefault).tokens
             ELSE IF Len(es) > 1 THEN <<",", " ">> ELSE <<>>)
         \o CommaSeparated(Tail(es))

\* C30: in the text of every Parameters value, an emitted element (a parameter,
\* the /, the bare * or *name) that another emitted element follows is followed by
\* a comma, its own when it has one and the default ", " otherwise, and no default
\* comma follows the last element
C30_CommaSeparation ==
    pc = "params_done" => cgAfter.tokens = CommaSeparated(EmittedElements(cgNode))
====
